---- MODULE Spec2Model ----
(***************************************************************************)
(* Model of the tax-app: the extract-tax-info request handler of           *)
(* routes/documents.ts (fan-out of per-document extractions, fan-in merge, *)
(* missing-field report), the generate-1040 endpoints with                 *)
(* services/pdfGeneration.ts (generate1040Form), the upload, listing,      *)
(* fetch and analyze-documents routes with services/documentAnalysis.ts,   *)
(* complete-tax-form, the TaxAnalysis component of the client with what it *)
(* shows of a record, the two chat routes with their per-user histories,   *)
(* and the tabs of the Dashboard component.                                *)
(*                                                                         *)
(* JSON values are records [ty, n, s]; a JSON object is a function from    *)
(* its keys to values, an absent key being a key outside its DOMAIN.       *)
(* A string is a sequence of tokens: the characters of an ssn, whole words *)
(* elsewhere.  Amounts that enter the form computation are in cents.       *)
(***************************************************************************)
EXTENDS Integers, Sequences, FiniteSets, TLC

(***************************************************************************)
(* Bounds of the model.                                                    *)
(***************************************************************************)
\* documents of the first user in the registry (one more belongs to another user)
NumOwned == 2
\* longest documentIds array a request carries
MaxDocs == 2
\* cents tried on either side of each bracket edge and rounding tie
MaxOffset == 2
\* documents uploaded to an empty registry
MaxUploads == 2
\* chat requests admitted in a run
MaxChatRequests == 6
\* chat requests in flight at a time
MaxInFlight == 2
\* clicks on the tabs in a run
MaxClicks == 4
\* longest run of digits tried as an ssn
MaxSsnLen == 9

(***************************************************************************)
(* Constants of the program.                                               *)
(***************************************************************************)
\* entries a chat history is cut to
HistoryLimit == 10

(***************************************************************************)
(* JSON values and JavaScript truthiness.                                  *)
(***************************************************************************)
Null == [ty |-> "null", n |-> 0, s |-> << >>]
Num(x) == [ty |-> "num", n |-> x, s |-> << >>]
Str(x) == [ty |-> "str", n |-> 0, s |-> x]
\* what reading an absent property gives, and the number that is not one
Undefined == [ty |-> "undefined", n |-> 0, s |-> << >>]
NaN == [ty |-> "nan", n |-> 0, s |-> << >>]

\* a nested JSON object, told from others by its tag
Obj(tag) == [ty |-> "obj", n |-> 0, s |-> <<tag>>]

\* !!v of JavaScript: null, undefined, NaN, 0 and "" are falsy, an object is truthy
Truthy(v) ==
  \/ v.ty = "num" /\ v.n # 0
  \/ v.ty = "str" /\ Len(v.s) > 0
  \/ v.ty = "obj"

\* the object with no key
EmptyObject == [k \in {} |-> Null]

\* obj[k] read by JavaScript: undefined (falsy) for an absent key
HasKey(obj, k) == k \in DOMAIN obj
TruthyAt(obj, k) == HasKey(obj, k) /\ Truthy(obj[k])

(***************************************************************************)
(* Field names.                                                            *)
(***************************************************************************)
NumericFields ==
  {"wages", "interest", "dividends", "capitalGains", "otherIncome", "adjustments", "deductions"}
TextFields ==
  {"firstName", "lastName", "ssn", "filingStatus", "address", "city", "state", "zip"}
Vocabulary == NumericFields \cup TextFields

\* requiredFields of extract-tax-info, in its order
requiredFields ==
  << "firstName", "lastName", "ssn", "filingStatus",
     "address", "city", "state", "zip",
     "wages", "interest", "dividends", "capitalGains" >>

(***************************************************************************)
(* What the generation capability may answer for one document.             *)
(***************************************************************************)
\* keys the model output may carry, and the values it may give them
OutputKeys == {"wages", "firstName"}
OutputValues(k) ==
  IF k = "wages" THEN {Null, Num(0), Num(75000), Num(500)}
  ELSE {Null, Str(<< >>), Str(<<"John">>)}

\* the JSON objects a well-formed answer may hold
OutputObjects ==
  UNION { { o \in [K -> UNION {OutputValues(k) : k \in K}] :
              \A k \in K : o[k] \in OutputValues(k) } : K \in SUBSET OutputKeys }

\* a response text: what the two regular expressions find in it and what
\* JSON.parse makes of the match
\*   match = "fenced"  a ```json block          (first pattern)
\*   match = "braces"  a { ... } substring only (second pattern)
\*   match = "none"    neither
\*   valid             JSON.parse accepts the matched string
NoJsonText == [match |-> "none", valid |-> FALSE, obj |-> EmptyObject]
TextsOver(objects) ==
  { [match |-> m, valid |-> TRUE, obj |-> o] : m \in {"fenced", "braces"}, o \in objects }
  \cup { [match |-> m, valid |-> FALSE, obj |-> EmptyObject] : m \in {"fenced", "braces"} }
  \cup { NoJsonText }

\* answers that depart from the prompt's JSON structure: a key the prompt does
\* not name, a string where it asks for a number, a number where it asks for a string
OffSchemaObjects ==
  { [k \in {"wages", "employerName"} |-> IF k = "wages" THEN Num(500) ELSE Str(<<"Acme">>)],
    [k \in {"wages"} |-> Str(<<"75,000">>)],
    [k \in {"firstName"} |-> Num(42)] }

OutputTexts == TextsOver(OutputObjects \cup OffSchemaObjects)

\* the answers tried where the extractions of a batch interleave
HandlerObjects ==
  { EmptyObject, [k \in {"wages"} |-> Num(0)],
    [k \in {"wages"} |-> Num(75000)], [k \in {"wages"} |-> Num(500)] }
HandlerTexts == TextsOver(HandlerObjects)

CouldNotParse == Str(<<"Could not parse structured data from document">>)

\* analysisData of the inner try block, for a text the parse accepts
ParseAnalysis(text) ==
  IF text.match # "none"
  THEN text.obj
  ELSE [k \in {"error"} |-> CouldNotParse]

\* JSON.parse throws
ParseThrows(text) == text.match # "none" /\ ~text.valid

(***************************************************************************)
(* Per-document result entries of processedDocs.                           *)
(***************************************************************************)
NoError == ""
ErrLocation == "Processing error: Document location is missing"
ErrStorage == "Processing error: storage"
ErrGeneration == "Processing error: generation"
ErrParse == "Failed to parse analysis results"

AnalysisEntry(id, data) ==
  [documentId |-> id, hasAnalysis |-> TRUE, analysis |-> data, error |-> NoError]
\* mutation: the failure is reported inside the analysis, as the no-JSON fallback does
ErrorEntryInAnalysis(id, msg) ==
  [documentId |-> id, hasAnalysis |-> TRUE,
   analysis |-> [k \in {"error"} |-> Str(<<msg>>)], error |-> NoError]
ErrorEntry(id, msg) ==
  [documentId |-> id, hasAnalysis |-> FALSE, analysis |-> EmptyObject, error |-> msg]
\* slot of Promise.all not yet filled
PendingEntry ==
  [documentId |-> 0, hasAnalysis |-> FALSE, analysis |-> EmptyObject, error |-> "pending"]

(***************************************************************************)
(* The merge of extract-tax-info.                                          *)
(***************************************************************************)
\* mutation: every non-null value overwrites the field (last document wins)
MergeAnalysisLastWins(fd, a) ==
  [ k \in DOMAIN fd \cup {j \in DOMAIN a : a[j] # Null} |->
      IF HasKey(a, k) /\ a[k] # Null THEN a[k] ELSE fd[k] ]
\* Object.entries(doc.analysis).forEach(...) applied to formData fd
MergeAnalysis(fd, a) ==
  [ k \in DOMAIN fd \cup {j \in DOMAIN a : a[j] # Null} |->
      IF HasKey(a, k) /\ a[k] # Null /\ ~TruthyAt(fd, k) THEN a[k] ELSE fd[k] ]

\* the guard of the merge loop: doc.analysis && !doc.error
Contributes(doc) == doc.hasAnalysis /\ doc.error = NoError

MergeDoc(fd, doc) == IF Contributes(doc) THEN MergeAnalysis(fd, doc.analysis) ELSE fd

RECURSIVE MergeFrom(_, _, _)
MergeFrom(docs, i, fd) ==
  IF i > Len(docs) THEN fd ELSE MergeFrom(docs, i + 1, MergeDoc(fd, docs[i]))

\* mutation: the merge starts from a record with the numeric fields at 0
MergeDocsDefaulted(docs) == MergeFrom(docs, 1, [k \in NumericFields |-> Num(0)])
\* processedDocs.forEach(...) starting from formData = {}
MergeDocs(docs) == MergeFrom(docs, 1, EmptyObject)

\* requiredFields.forEach(...): !formData[field] || formData[field] === null
IsMissing(fd, field) == ~TruthyAt(fd, field)
MissingOf(fd) == SelectSeq(requiredFields, LAMBDA f : IsMissing(fd, f))

(***************************************************************************)
(* The document registry and the state of one extract-tax-info request.    *)
(***************************************************************************)
Users == {"u1", "u2"}
\* ids 1..NumOwned belong to u1, id NumOwned+1 to u2; 0 is not a valid ObjectId
StoredIds == 1..(NumOwned + 1)
RequestIds == 0..(NumOwned + 1)
OwnerOf(id) == IF id <= NumOwned THEN "u1" ELSE "u2"
isValidObjectId(id) == id # 0

VARIABLES
  store,          \* the documents collection, in its natural order
  pc,             \* where the extract-tax-info handler stands
  userId,         \* req.auth.sub of the request
  documentIds,    \* req.body.documentIds
  documents,      \* the result of Document.find
  dpc,            \* per document of the batch: where its extraction stands
  analysisData,   \* per document: the parsed analysis awaiting the registry update
  slots,          \* per document: the value its promise resolved with
  arrival,        \* indices of the batch in the order their promises settled
  formData,       \* formData of the handler
  missingFields,  \* missingFields of the handler
  response,       \* what res.json / res.status(..).json sent
  credentials     \* which access credentials the process environment holds

extractVars ==
  << store, pc, userId, documentIds, documents, dpc, analysisData, slots,
     arrival, formData, missingFields, response, credentials >>

VARIABLES
  gpc,          \* "idle" until a generate-1040 request has been answered
  route,        \* the endpoint that took the request
  taxData,      \* the record handed to the endpoint
  genResponse   \* the answer: status, error, missingFields, pdf

formVars == << gpc, route, taxData, genResponse >>

VARIABLES
  apc,          \* where the analyze-documents request stands
  aRequester,   \* who sent it (the route authenticates nobody)
  aUserId,      \* the userId handed to analyzeDocuments
  aIds,         \* the documentIds handed to analyzeDocuments
  aDocs,        \* the result of its Document.find
  adpc,         \* per document: where its processing stands
  aData,        \* per document: the parsed analysis awaiting the registry update
  aSlots,       \* per document: the entry its promise resolved with
  aResult,      \* the answer of the route
  served        \* the last answer of an upload, listing or single-document route

accessVars ==
  << apc, aRequester, aUserId, aIds, aDocs, adpc, aData, aSlots, aResult, served >>

VARIABLES
  kpc,               \* where the complete-tax-form request stands
  currentFormData,   \* req.body.currentFormData
  additionalInfo,    \* req.body.additionalInfo
  updatedFormData,   \* updatedFormData of the handler
  completeResponse   \* its answer

completeVars == << kpc, currentFormData, additionalInfo, updatedFormData, completeResponse >>

VARIABLES
  cFormData,         \* TaxAnalysis state formData (set: false while it is null)
  cMissingFields,    \* state missingFields
  cAdditionalInfo,   \* state additionalInfo
  showManualEntry,   \* state showManualEntry
  manualFormData,    \* state manualFormData
  analyzing,         \* handleAnalyzeDocuments waits for its timer
  completing,        \* handleCompleteForm waits for its timer: what its closure holds
  lastHandler        \* the handler that changed formData last

clientVars ==
  << cFormData, cMissingFields, cAdditionalInfo, showManualEntry, manualFormData,
     analyzing, completing, lastHandler >>

VARIABLES
  userChatHistory,   \* per router and user: the stored history
  chatReqs,          \* per request in flight: where it stands
  chatCount,         \* chat requests admitted so far
  chatAnswer         \* the status of the last answer of a chat route

chatVars == << userChatHistory, chatReqs, chatCount, chatAnswer >>

VARIABLES
  activeTab,         \* Dashboard state activeTab
  isTransitioning,   \* Dashboard state isTransitioning
  switchTimers,      \* pending 300 ms timers, oldest first: the tab each will set
  settleTimers,      \* number of pending 50 ms timers
  lastClick,         \* the tab of the most recent click
  clicks             \* clicks so far

dashboardVars ==
  << activeTab, isTransitioning, switchTimers, settleTimers, lastClick, clicks >>

VARIABLES
  clientPdf,         \* the document generateTaxFormPDF saved last
  clientError        \* TaxAnalysis state error, as set by generateTaxFormPDF

viewVars == << clientPdf, clientError >>

\* the chat routes of the server, the tabs of the client and what it draws
sessionVars == << chatVars, dashboardVars, viewVars >>

\* the form-completion state, on the server and in the client, and the session state
uiVars == << completeVars, clientVars, sessionVars >>

\* what a step of a chat route or of the Dashboard leaves alone
outsideSession ==
  << extractVars, formVars, accessVars, completeVars, clientVars, viewVars >>

\* what a step of the extract-tax-info handler leaves alone
outsideExtract == << formVars, accessVars, uiVars, credentials >>

\* GEMINI_API_KEY and the AWS access keys: present or not
CredentialStates == [generation : BOOLEAN, storage : BOOLEAN]
AllCredentials == [generation |-> TRUE, storage |-> TRUE]

Range(seq) == { seq[i] : i \in 1..Len(seq) }

RECURSIVE SeqsUpTo(_, _)
SeqsUpTo(S, n) ==
  IF n = 0 THEN { << >> }
  ELSE LET shorter == SeqsUpTo(S, n - 1)
       IN shorter \cup { Append(q, x) : q \in { r \in shorter : Len(r) = n - 1 }, x \in S }

NoResponse == [status |-> 0, error |-> "", success |-> FALSE,
               formData |-> EmptyObject, missingFields |-> << >>, documents |-> << >>]
ErrorResponse(code, msg) == [NoResponse EXCEPT !.status = code, !.error = msg]

StoredDocument(id, loc) ==
  [id |-> id, userId |-> OwnerOf(id), hasLocation |-> loc,
   analysis |-> EmptyObject, analysed |-> FALSE, hasAnalysis |-> FALSE]

ExtractInit ==
  /\ \E noLoc \in SUBSET {1} :
       store = [ i \in StoredIds |-> StoredDocument(i, i \notin noLoc) ]
  /\ pc = "idle"
  /\ userId = ""
  /\ documentIds = << >>
  /\ documents = << >>
  /\ dpc = << >>
  /\ analysisData = << >>
  /\ slots = << >>
  /\ arrival = << >>
  /\ formData = EmptyObject
  /\ missingFields = << >>
  /\ response = NoResponse
  /\ credentials \in CredentialStates

\* Document.find({ _id: { $in: documentIds }, userId }): the matching records
\* in the collection's own order
FindOwned(coll, ids, user) ==
  SelectSeq(coll, LAMBDA d : d.id \in Range(ids) /\ d.userId = user)

\* the request arrives: the array and ObjectId checks, then the registry query is issued
Request(u, ids) ==
  /\ pc = "idle"
  /\ UNCHANGED outsideExtract
  /\ userId' = u
  /\ documentIds' = ids
  /\ IF Len(ids) = 0
     THEN /\ pc' = "rejected"
          /\ response' = ErrorResponse(400, "Valid document IDs array is required")
     ELSE IF \E i \in 1..Len(ids) : ~isValidObjectId(ids[i])
     THEN /\ pc' = "rejected"
          /\ response' = ErrorResponse(400, "Invalid document ID format")
     ELSE /\ pc' = "find"
          /\ UNCHANGED response
  /\ UNCHANGED << store, documents, dpc, analysisData, slots, arrival, formData, missingFields >>

\* the synchronous start of one map callback: it throws at once without a location
StartPc(doc) == IF doc.hasLocation THEN "s3" ELSE "failed"
StartSlot(doc) == IF doc.hasLocation THEN PendingEntry ELSE ErrorEntry(doc.id, ErrLocation)

\* Document.find returns: ownership check, then documents.map starts every extraction
FindReturn(ok) ==
  /\ pc = "find"
  /\ UNCHANGED outsideExtract
  /\ IF ~ok
     THEN /\ pc' = "failed_find"
          /\ response' = ErrorResponse(500, "Failed to extract tax information")
          /\ UNCHANGED << documents, dpc, analysisData, slots, arrival >>
     ELSE LET found == FindOwned(store, documentIds, userId)
          IN IF Len(found) # Len(documentIds)
             THEN /\ pc' = "rejected"
                  /\ response' = ErrorResponse(403, "Access denied")
                  /\ UNCHANGED << documents, dpc, analysisData, slots, arrival >>
             ELSE /\ pc' = "extracting"
                  /\ documents' = found
                  /\ dpc' = [ i \in 1..Len(found) |-> StartPc(found[i]) ]
                  /\ slots' = [ i \in 1..Len(found) |-> StartSlot(found[i]) ]
                  /\ analysisData' = [ i \in 1..Len(found) |-> EmptyObject ]
                  /\ arrival' = SelectSeq([ i \in 1..Len(found) |-> i ],
                                          LAMBDA i : ~found[i].hasLocation)
                  /\ UNCHANGED response
  /\ UNCHANGED << store, userId, documentIds, formData, missingFields >>

\* a promise of the batch settles with its entry
Settle(i, state, entry) ==
  /\ dpc' = [dpc EXCEPT ![i] = state]
  /\ slots' = [slots EXCEPT ![i] = entry]
  /\ arrival' = Append(arrival, i)

\* s3.getObject answers for document i; without access keys it can only fail
S3Return(i, ok) ==
  /\ pc = "extracting"
  /\ UNCHANGED outsideExtract
  /\ i \in DOMAIN dpc
  /\ dpc[i] = "s3"
  /\ ok => credentials.storage
  /\ IF ok
     THEN /\ dpc' = [dpc EXCEPT ![i] = "gen"]
          /\ UNCHANGED << slots, arrival >>
     ELSE Settle(i, "failed", ErrorEntry(documents[i].id, ErrStorage))
  /\ UNCHANGED << store, pc, userId, documentIds, documents, analysisData,
                  formData, missingFields, response >>

\* model.generateContent answers for document i (or fails, as it must without
\* an API key); the text is parsed and the registry update is issued
GenReturn(i, ok, text) ==
  /\ pc = "extracting"
  /\ UNCHANGED outsideExtract
  /\ i \in DOMAIN dpc
  /\ dpc[i] = "gen"
  /\ ok => credentials.generation
  /\ IF ~ok
     THEN /\ Settle(i, "failed", ErrorEntry(documents[i].id, ErrGeneration))
          /\ UNCHANGED analysisData
     ELSE IF ParseThrows(text)
     THEN /\ Settle(i, "failed", ErrorEntry(documents[i].id, ErrParse))
          /\ UNCHANGED analysisData
     ELSE /\ dpc' = [dpc EXCEPT ![i] = "db"]
          /\ analysisData' = [analysisData EXCEPT ![i] = ParseAnalysis(text)]
          /\ UNCHANGED << slots, arrival >>
  /\ UNCHANGED << store, pc, userId, documentIds, documents,
                  formData, missingFields, response >>

\* Document.findOneAndUpdate({ _id, userId }, { analysis }) answers for document i;
\* its rejection is caught by the same handler as a JSON.parse error
DbReturn(i, ok) ==
  /\ pc = "extracting"
  /\ UNCHANGED outsideExtract
  /\ i \in DOMAIN dpc
  /\ dpc[i] = "db"
  /\ IF ok
     THEN /\ store' = [ j \in DOMAIN store |->
                          IF store[j].id = documents[i].id /\ store[j].userId = userId
                          THEN [store[j] EXCEPT !.analysis = analysisData[i], !.analysed = TRUE]
                          ELSE store[j] ]
          /\ Settle(i, "done", AnalysisEntry(documents[i].id, analysisData[i]))
     ELSE /\ Settle(i, "failed", ErrorEntry(documents[i].id, ErrParse))
          /\ UNCHANGED store
  /\ UNCHANGED << pc, userId, documentIds, documents, analysisData,
                  formData, missingFields, response >>

\* Promise.all: fulfilled only when every promise of the array has settled
AllSettled(p) == \A i \in DOMAIN p : p[i] \in {"done", "failed"}

\* mutation: the values in the order the promises settled
ResolvedValuesByArrival(values, order) == [ i \in 1..Len(order) |-> values[order[i]] ]
\* Promise.all: the values in the order of the promises passed in
ResolvedValues(values, order) == values

\* Promise.all resolves: merge, missing-field check, then updateMany is issued
MergeResults ==
  /\ pc = "extracting"
  /\ UNCHANGED outsideExtract
  /\ AllSettled(dpc)
  /\ LET processedDocs == ResolvedValues(slots, arrival)
         merged == MergeDocs(processedDocs)
     IN /\ formData' = merged
        /\ missingFields' = MissingOf(merged)
  /\ pc' = "update"
  /\ UNCHANGED << store, userId, documentIds, documents, dpc, analysisData,
                  slots, arrival, response >>

\* Document.updateMany({ _id: { $in: documentIds } }, { hasAnalysis: true }) answers
UpdateReturn(ok) ==
  /\ pc = "update"
  /\ UNCHANGED outsideExtract
  /\ IF ok
     THEN /\ store' = [ j \in DOMAIN store |->
                          IF store[j].id \in Range(documentIds)
                          THEN [store[j] EXCEPT !.hasAnalysis = TRUE]
                          ELSE store[j] ]
          /\ pc' = "responded"
          /\ response' = [status |-> 200, error |-> "", success |-> TRUE,
                          formData |-> formData, missingFields |-> missingFields,
                          documents |-> ResolvedValues(slots, arrival)]
     ELSE /\ pc' = "failed_update"
          /\ response' = ErrorResponse(500, "Failed to extract tax information")
          /\ UNCHANGED store
  /\ UNCHANGED << userId, documentIds, documents, dpc, analysisData, slots,
                  arrival, formData, missingFields >>

(***************************************************************************)
(* The fan-in point reached with every extraction of the batch settled,    *)
(* the per-document outcomes drawn from the larger set of answers.         *)
(***************************************************************************)
\* how the extraction of one document ended
Outcomes ==
  { [kind |-> k, text |-> NoJsonText, dbOk |-> TRUE] :
      k \in {"noLocation", "storage", "generation"} }
  \cup { [kind |-> "text", text |-> t, dbOk |-> TRUE] : t \in OutputTexts }
  \cup { [kind |-> "text", text |-> t, dbOk |-> FALSE] : t \in HandlerTexts }

\* the entry the map callback returns for a document whose extraction ended as o
EntryOf(id, o) ==
  IF o.kind = "noLocation" THEN ErrorEntry(id, ErrLocation)
  ELSE IF o.kind = "storage" THEN ErrorEntry(id, ErrStorage)
  ELSE IF o.kind = "generation" THEN ErrorEntry(id, ErrGeneration)
  ELSE IF ParseThrows(o.text) \/ ~o.dbOk THEN ErrorEntry(id, ErrParse)
  ELSE AnalysisEntry(id, ParseAnalysis(o.text))

\* whether the callback got as far as the registry update, and stored the analysis
ReachedDb(o) == o.kind = "text" /\ ~ParseThrows(o.text)
Stored(o) == ReachedDb(o) /\ o.dbOk

Min(a, b) == IF a < b THEN a ELSE b

SettledInit ==
  \E n \in 1..Min(MaxDocs, NumOwned) : \E outs \in [1..n -> Outcomes] :
    /\ store = [ i \in StoredIds |->
                   IF i <= n /\ Stored(outs[i])
                   THEN [StoredDocument(i, TRUE) EXCEPT
                           !.analysis = ParseAnalysis(outs[i].text), !.analysed = TRUE]
                   ELSE StoredDocument(i, ~(i <= n /\ outs[i].kind = "noLocation")) ]
    /\ pc = "extracting"
    /\ userId = "u1"
    /\ documentIds = [ i \in 1..n |-> i ]
    /\ documents = [ i \in 1..n |-> StoredDocument(i, outs[i].kind # "noLocation") ]
    /\ dpc = [ i \in 1..n |-> IF EntryOf(i, outs[i]).error = NoError THEN "done" ELSE "failed" ]
    /\ analysisData = [ i \in 1..n |->
                          IF ReachedDb(outs[i]) THEN ParseAnalysis(outs[i].text) ELSE EmptyObject ]
    /\ slots = [ i \in 1..n |-> EntryOf(i, outs[i]) ]
    /\ arrival = SelectSeq([ i \in 1..n |-> i ], LAMBDA i : outs[i].kind = "noLocation")
                   \o SelectSeq([ i \in 1..n |-> i ], LAMBDA i : outs[i].kind # "noLocation")
    /\ formData = EmptyObject
    /\ missingFields = << >>
    /\ response = NoResponse
    /\ credentials = AllCredentials

(***************************************************************************)
(* generate1040Form (services/pdfGeneration.ts) and the two generate-1040  *)
(* endpoints.                                                              *)
(***************************************************************************)
\* data[k] of JavaScript
Get(obj, k) == IF HasKey(obj, k) THEN obj[k] ELSE Undefined

\* the number a null, undefined or numeric operand of + and - stands for
ToNumber(v) ==
  IF v.ty = "num" THEN v
  ELSE IF v.ty = "null" THEN Num(0)
  ELSE NaN

Add(a, b) ==
  IF ToNumber(a) = NaN \/ ToNumber(b) = NaN THEN NaN
  ELSE Num(ToNumber(a).n + ToNumber(b).n)
Sub(a, b) ==
  IF ToNumber(a) = NaN \/ ToNumber(b) = NaN THEN NaN
  ELSE Num(ToNumber(a).n - ToNumber(b).n)

\* v || d
OrElse(v, d) == IF Truthy(v) THEN v ELSE d

\* Math.max(0, v)
MaxZero(v) ==
  IF ToNumber(v) = NaN THEN NaN
  ELSE IF ToNumber(v).n > 0 THEN ToNumber(v) ELSE Num(0)

\* `${v}` for the string, null and undefined values of the text fields
Show(v) ==
  IF v.ty = "str" THEN v.s
  ELSE IF v.ty = "null" THEN <<"null">>
  ELSE <<"undefined">>

\* mutation: slice(4), the text from its fifth character on
SliceFrom4(str) == SubSeq(str, 5, Len(str))
\* v.slice(-4) on a string
SliceLast4(str) == IF Len(str) <= 4 THEN str ELSE SubSeq(str, Len(str) - 3, Len(str))

\* v.slice and v.toLocaleString throw a TypeError on null and undefined
HasMethods(v) == v.ty \notin {"null", "undefined"}

\* the switch on data.filingStatus
StatusText(status) ==
  IF status = Str(<<"single">>) THEN <<"Single">>
  ELSE IF status = Str(<<"married_joint">>) THEN <<"Married Filing Jointly">>
  ELSE IF status = Str(<<"married_separate">>) THEN <<"Married Filing Separately">>
  ELSE IF status = Str(<<"head_of_household">>) THEN <<"Head of Household">>
  ELSE IF status = Str(<<"qualifying_widow">>) THEN <<"Qualifying Widow(er)">>
  ELSE Show(status)

\* const standardDeduction = ...
StandardDeduction(status) ==
  IF status = Str(<<"single">>) \/ status = Str(<<"married_separate">>) THEN Num(12950 * 100)
  ELSE IF status = Str(<<"head_of_household">>) THEN Num(19400 * 100)
  ELSE Num(25900 * 100)

\* the bracket chain for a taxable income of c cents, in ten-thousandths of a
\* unit (the products by 0.10 .. 0.37 taken exactly)
estimatedTax(c) ==
  IF c <= 1027500 THEN c * 10
  ELSE IF c <= 4177500 THEN 10275000 + (c - 1027500) * 12
  ELSE IF c <= 8907500 THEN 48075000 + (c - 4177500) * 22
  ELSE IF c <= 17005000 THEN 152135000 + (c - 8907500) * 24
  ELSE IF c <= 21595000 THEN 346475000 + (c - 17005000) * 32
  ELSE IF c <= 53990000 THEN 493355000 + (c - 21595000) * 35
  ELSE 1627180000 + (c - 53990000) * 37

\* mutation: the estimate is truncated to whole units
RoundedTaxTruncated(taxable) ==
  IF taxable = NaN THEN NaN
  ELSE Num((estimatedTax(taxable.n) \div 10000) * 100)
\* Math.round(estimatedTax): the nearest whole unit, a half going up; every
\* comparison with NaN is false, which leads to the last branch and to NaN
RoundedTax(taxable) ==
  IF taxable = NaN THEN NaN
  ELSE Num(((estimatedTax(taxable.n) + 5000) \div 10000) * 100)

Item(label, amount) == [label |-> label, amount |-> amount]

TotalIncome(data) ==
  Add(Add(Add(Add(Get(data, "wages"), Get(data, "interest")), Get(data, "dividends")),
          Get(data, "capitalGains")),
      OrElse(Get(data, "otherIncome"), Num(0)))

incomeItems(data) ==
  << Item("1. Wages, salaries, tips", Get(data, "wages")),
     Item("2. Tax-exempt interest", Num(0)),
     Item("3a. Qualified dividends", Get(data, "dividends")),
     Item("3b. Ordinary dividends", Get(data, "dividends")),
     Item("4a. IRA distributions", Num(0)),
     Item("4b. Taxable amount", Num(0)),
     Item("5a. Pensions and annuities", Num(0)),
     Item("5b. Taxable amount", Num(0)),
     Item("6a. Social security benefits", Num(0)),
     Item("6b. Taxable amount", Num(0)),
     Item("7. Capital gain or (loss)", Get(data, "capitalGains")),
     Item("8. Other income", OrElse(Get(data, "otherIncome"), Num(0))),
     Item("9. Total income", TotalIncome(data)) >>

\* mutation: adjusted gross income floored at 0
adjustedItemsClamped(data) ==
  << Item("10. Adjustments to income", OrElse(Get(data, "adjustments"), Num(0))),
     Item("11. Adjusted gross income",
          MaxZero(Sub(TotalIncome(data), OrElse(Get(data, "adjustments"), Num(0))))) >>
adjustedItems(data) ==
  << Item("10. Adjustments to income", OrElse(Get(data, "adjustments"), Num(0))),
     Item("11. Adjusted gross income",
          Sub(TotalIncome(data), OrElse(Get(data, "adjustments"), Num(0)))) >>

\* data.deductions || standardDeduction
AppliedDeduction(data) ==
  OrElse(Get(data, "deductions"), StandardDeduction(Get(data, "filingStatus")))

\* mutation: the difference is used as it is
taxableIncomeUnclamped(data) == Sub(adjustedItems(data)[2].amount, AppliedDeduction(data))
\* Math.max(0, adjustedItems[1].amount - (data.deductions || standardDeduction))
taxableIncome(data) == MaxZero(Sub(adjustedItems(data)[2].amount, AppliedDeduction(data)))

taxItems(data) ==
  << Item("12. Standard deduction or itemized deductions", AppliedDeduction(data)),
     Item("13. Qualified business income deduction", Num(0)),
     Item("14. Taxable income", taxableIncome(data)),
     Item("15. Tax", RoundedTax(taxableIncome(data))) >>

\* the points at which the Promise executor throws and the promise rejects
Form1040Throws(data) ==
  \/ ~HasMethods(Get(data, "ssn"))
  \/ \E i \in 1..Len(incomeItems(data)) : ~HasMethods(incomeItems(data)[i].amount)

NoPdf == [produced |-> FALSE]

\* the document resolved by generate1040Form
Form1040Pdf(data) ==
  [produced |-> TRUE,
   name |-> << Show(Get(data, "firstName")), Show(Get(data, "lastName")) >>,
   ssn |-> << <<"XXX-XX-">>, SliceLast4(Get(data, "ssn").s) >>,
   filingStatus |-> StatusText(Get(data, "filingStatus")),
   address |-> << Show(Get(data, "address")), Show(Get(data, "city")),
                  Show(Get(data, "state")), Show(Get(data, "zip")) >>,
   incomeItems |-> incomeItems(data),
   adjustedItems |-> adjustedItems(data),
   taxItems |-> taxItems(data)]

\* sanitizeString on a token sequence: < and > removed, then trim()
RECURSIVE TrimLeft(_)
TrimLeft(str) == IF Len(str) > 0 /\ Head(str) = " " THEN TrimLeft(Tail(str)) ELSE str
RECURSIVE TrimRight(_)
TrimRight(str) ==
  IF Len(str) > 0 /\ str[Len(str)] = " " THEN TrimRight(SubSeq(str, 1, Len(str) - 1)) ELSE str
sanitizeString(str) ==
  TrimRight(TrimLeft(SelectSeq(str, LAMBDA c : c \notin {"<", ">"})))

\* sanitizeInput: every top-level string of req.body is sanitized
sanitizeInput(body) ==
  [ k \in DOMAIN body |-> IF body[k].ty = "str" THEN Str(sanitizeString(body[k].s)) ELSE body[k] ]

\* the records tried: a complete record, varied in filing status and amounts,
\* with at most one required field damaged (absent, null, or empty / zero)
SampleSsn == <<"1", "2", "3", "4", "5", "6", "7", "8", "9">>
CompleteRecord ==
  [ k \in Vocabulary \ {"otherIncome", "adjustments", "deductions"} |->
      IF k = "firstName" THEN Str(<<"John">>)
      ELSE IF k = "lastName" THEN Str(<<"Doe">>)
      ELSE IF k = "ssn" THEN Str(SampleSsn)
      ELSE IF k = "filingStatus" THEN Str(<<"single">>)
      ELSE IF k = "address" THEN Str(<<"123", " ", "Main", " ", "St">>)
      ELSE IF k = "city" THEN Str(<<"Anytown">>)
      ELSE IF k = "state" THEN Str(<<"CA">>)
      ELSE IF k = "zip" THEN Str(<<"12345">>)
      ELSE IF k = "wages" THEN Num(75000 * 100)
      ELSE IF k = "interest" THEN Num(1200 * 100)
      ELSE IF k = "dividends" THEN Num(850 * 100)
      ELSE Num(3000 * 100) ]

FilingStatuses ==
  { Str(<<"single">>), Str(<<"married_joint">>), Str(<<"married_separate">>),
    Str(<<"head_of_household">>), Str(<<"qualifying_widow">>) }

\* the record obj with key k set to v, or without key k when v is Undefined
With(obj, k, v) ==
  IF v = Undefined
  THEN [ j \in DOMAIN obj \ {k} |-> obj[j] ]
  ELSE [ j \in DOMAIN obj \cup {k} |-> IF j = k THEN v ELSE obj[j] ]

Damages(k) ==
  {Undefined, Null} \cup (IF k \in NumericFields THEN {Num(0)} ELSE {Str(<< >>), Str(<<" ">>)})

VariedRecords ==
  { With(With(With(With(CompleteRecord, "filingStatus", st), "deductions", d),
              "adjustments", a), "otherIncome", o) :
      st \in FilingStatuses \cup {Str(<<"head_household">>)},
      d \in {Undefined, Null, Num(0), Num(15000 * 100), Num(-1000 * 100)},
      a \in {Undefined, Num(0), Num(100000 * 100)},
      o \in {Undefined, Num(500 * 100)} }

FormRecords ==
  VariedRecords
  \cup UNION { { With(r, k, v) : r \in { x \in VariedRecords : ~HasKey(x, "otherIncome") },
                                 v \in Damages(k) } : k \in Range(requiredFields) }

\* taxable incomes tried, in cents: around the upper edge of every bracket and
\* around incomes whose tax falls on a half unit (5.00 and 89087.50)
BracketEdges == {0, 1027500, 4177500, 8907500, 17005000, 21595000, 53990000}
HalfUnitIncomes == {500, 8908750}
TaxableSamples ==
  { e + d : e \in BracketEdges \cup HalfUnitIncomes, d \in (0 - MaxOffset)..MaxOffset } \cap Nat

\* complete records of every filing status whose wages bring the taxable income
\* to a sample (interest, dividends and capital gains of CompleteRecord: 5050.00)
TaxRecords ==
  { With(With(CompleteRecord, "filingStatus", st),
         "wages", Num(StandardDeduction(st).n + t - 505000)) :
      st \in FilingStatuses \cup {Str(<<"head_household">>)}, t \in TaxableSamples }

FormInputs == FormRecords \cup TaxRecords

NoGenResponse == [status |-> 0, error |-> "", missingFields |-> << >>, pdf |-> NoPdf]

FormInit ==
  /\ gpc = "idle"
  /\ route = ""
  /\ taxData = EmptyObject
  /\ genResponse = NoGenResponse

\* the call of generate1040Form inside the try block of either endpoint
GenerateAnswer(data, failure) ==
  IF Form1040Throws(data)
  THEN [status |-> 500, error |-> failure, missingFields |-> << >>, pdf |-> NoPdf]
  ELSE [status |-> 200, error |-> "", missingFields |-> << >>, pdf |-> Form1040Pdf(data)]

\* requiredFields of app.post('/api/generate-1040')
serverRequiredFields == << "firstName", "lastName", "ssn", "filingStatus" >>

\* app.post('/api/generate-1040') of server.ts, behind sanitizeInput
ServerGenerate1040(body) ==
  /\ gpc = "idle"
  /\ gpc' = "done"
  /\ route' = "/api/generate-1040"
  /\ taxData' = body
  /\ LET formData1040 == sanitizeInput(body)
         missing == SelectSeq(serverRequiredFields,
                              LAMBDA f : ~Truthy(Get(formData1040, f)))
     IN genResponse' =
          IF Len(missing) > 0
          THEN [status |-> 400, error |-> "Missing required fields",
                missingFields |-> missing, pdf |-> NoPdf]
          ELSE GenerateAnswer(formData1040, "Error generating PDF")
  /\ UNCHANGED << extractVars, accessVars, uiVars >>

\* router.post('/generate-1040') of routes/documents.ts; the record is
\* req.body.taxData, which may be missing
RouterGenerate1040(present, data) ==
  /\ gpc = "idle"
  /\ gpc' = "done"
  /\ route' = "/api/documents/generate-1040"
  /\ taxData' = IF present THEN data ELSE EmptyObject
  /\ genResponse' =
       IF ~present
       THEN [status |-> 400, error |-> "Tax data is required",
             missingFields |-> << >>, pdf |-> NoPdf]
       ELSE GenerateAnswer(data, "Failed to generate 1040 form")
  /\ UNCHANGED << extractVars, accessVars, uiVars >>

(***************************************************************************)
(* Uploads, the document listing and the single-document fetch (server.ts, *)
(* routes/documents.ts), and analyzeDocuments                              *)
(* (services/documentAnalysis.ts) behind app.post('/api/analyze-documents').*)
(***************************************************************************)
\* the extract-tax-info handler at rest
ExtractAtRest ==
  /\ pc = "idle"
  /\ userId = ""
  /\ documentIds = << >>
  /\ documents = << >>
  /\ dpc = << >>
  /\ analysisData = << >>
  /\ slots = << >>
  /\ arrival = << >>
  /\ formData = EmptyObject
  /\ missingFields = << >>
  /\ response = NoResponse

extractButStore ==
  << pc, userId, documentIds, documents, dpc, analysisData, slots, arrival,
     formData, missingFields, response, credentials >>

NoServed == [route |-> "", requester |-> "", status |-> 0, ids |-> {}]
NoResult == [status |-> 0, error |-> "", documents |-> << >>,
             extractedData |-> EmptyObject, missingFields |-> << >>]

AccessInit ==
  /\ apc = "idle"
  /\ aRequester = ""
  /\ aUserId = ""
  /\ aIds = << >>
  /\ aDocs = << >>
  /\ adpc = << >>
  /\ aData = << >>
  /\ aSlots = << >>
  /\ aResult = NoResult
  /\ served = NoServed

analyzeVars == << apc, aRequester, aUserId, aIds, aDocs, adpc, aData, aSlots, aResult >>

\* new Document({ userId, ..., location }) saved under the next id
UploadedDocument(id, owner) == [StoredDocument(id, TRUE) EXCEPT !.userId = owner]

\* router.post('/upload') for the authenticated user u: s3.putObject, then
\* document.save(); the answer names the new document
RouterUpload(u, ok) ==
  /\ Len(store) < MaxUploads
  /\ ok => credentials.storage
  /\ IF ok
     THEN /\ store' = Append(store, UploadedDocument(Len(store) + 1, u))
          /\ served' = [route |-> "POST /api/documents/upload", requester |-> u,
                        status |-> 201, ids |-> {Len(store) + 1}]
     ELSE /\ served' = [route |-> "POST /api/documents/upload", requester |-> u,
                        status |-> 500, ids |-> {}]
          /\ UNCHANGED store
  /\ UNCHANGED << extractButStore, formVars, uiVars, analyzeVars >>

\* jwtCheck of server.ts: a dummy identity, whoever calls
DummyIdentity(bearer) == IF bearer THEN "temp-user-id" ELSE "anonymous"

\* app.post('/api/upload') called by c, with or without a Bearer header
ServerUpload(c, bearer, ok) ==
  /\ Len(store) < MaxUploads
  /\ ok => credentials.storage
  /\ IF ok
     THEN /\ store' = Append(store, UploadedDocument(Len(store) + 1, DummyIdentity(bearer)))
          /\ served' = [route |-> "POST /api/upload", requester |-> c,
                        status |-> 201, ids |-> {}]
     ELSE /\ served' = [route |-> "POST /api/upload", requester |-> c,
                        status |-> 500, ids |-> {}]
          /\ UNCHANGED store
  /\ UNCHANGED << extractButStore, formVars, uiVars, analyzeVars >>

\* GET /api/documents called by c: app.get('/api/documents') is registered ahead
\* of the router mounted on the same path and answers with Document.find()
ServerListDocuments(c, ok) ==
  /\ served' = IF ok
               THEN [route |-> "GET /api/documents", requester |-> c, status |-> 200,
                     ids |-> { store[i].id : i \in DOMAIN store }]
               ELSE [route |-> "GET /api/documents", requester |-> c, status |-> 500,
                     ids |-> {}]
  /\ UNCHANGED << extractVars, formVars, uiVars, analyzeVars >>

\* router.get('/:id') for the authenticated user u
RouterGetDocument(u, id, ok) ==
  /\ served' =
       IF ~isValidObjectId(id)
       THEN [route |-> "GET /api/documents/:id", requester |-> u, status |-> 400, ids |-> {}]
       ELSE IF ~ok
       THEN [route |-> "GET /api/documents/:id", requester |-> u, status |-> 500, ids |-> {}]
       ELSE IF Len(FindOwned(store, <<id>>, u)) = 0
       THEN [route |-> "GET /api/documents/:id", requester |-> u, status |-> 403, ids |-> {}]
       ELSE [route |-> "GET /api/documents/:id", requester |-> u, status |-> 200, ids |-> {id}]
  /\ UNCHANGED << extractVars, formVars, uiVars, analyzeVars >>

\* app.post('/api/analyze-documents') called by c with req.body.userId = bodyUser
\* ("" when the body has none): the check of documentIds, then
\* analyzeDocuments(documentIds, userId || 'anonymous') issues its Document.find
AnalyzeRequest(c, bodyUser, ids) ==
  /\ apc = "idle"
  /\ aRequester' = c
  /\ aIds' = ids
  /\ IF Len(ids) = 0
     THEN /\ apc' = "rejected"
          /\ aResult' = [NoResult EXCEPT !.status = 400, !.error = "Invalid document IDs"]
          /\ UNCHANGED aUserId
     ELSE /\ apc' = "find"
          /\ aUserId' = IF bodyUser = "" THEN "anonymous" ELSE bodyUser
          /\ UNCHANGED aResult
  /\ UNCHANGED << aDocs, adpc, aData, aSlots, served, extractVars, formVars, uiVars >>

AErrLocation == "Processing error: Document has no location"
AErrStorage == "Failed to retrieve document from storage: storage"
AErrGeneration == "Failed to retrieve document from storage: generation"

\* the entry of the jsonError handler: an error and the raw text as analysis
RawTextEntry(id) ==
  [documentId |-> id, hasAnalysis |-> TRUE,
   analysis |-> [k \in {"rawText"} |-> Str(<<"text">>)], error |-> ErrParse]

\* analysisData of analyzeDocuments for a text the parse accepts
AnalyzeParse(text) ==
  IF text.match # "none"
  THEN text.obj
  ELSE [k \in {"formType", "extractedData"} |->
          IF k = "formType" THEN Str(<<"Unknown">>) ELSE Obj("rawText")]

Sections == << "personalInfo", "address", "income" >>

\* Document.find of analyzeDocuments answers (an id that is no ObjectId makes the
\* query reject): nothing found returns at once, else every document is started
AnalyzeFind(ok) ==
  /\ apc = "find"
  /\ ok => \A i \in 1..Len(aIds) : isValidObjectId(aIds[i])
  /\ IF ~ok
     THEN /\ apc' = "failed"
          /\ aResult' = [NoResult EXCEPT !.status = 500, !.error = "Error analyzing documents"]
          /\ UNCHANGED << aDocs, adpc, aData, aSlots >>
     ELSE LET found == FindOwned(store, aIds, aUserId)
          IN IF Len(found) = 0
             THEN /\ apc' = "returned"
                  /\ aResult' = [NoResult EXCEPT !.status = 200, !.missingFields = Sections]
                  /\ UNCHANGED << aDocs, adpc, aData, aSlots >>
             ELSE /\ apc' = "processing"
                  /\ aDocs' = found
                  /\ adpc' = [ i \in 1..Len(found) |-> StartPc(found[i]) ]
                  /\ aSlots' = [ i \in 1..Len(found) |->
                                   IF found[i].hasLocation THEN PendingEntry
                                   ELSE ErrorEntry(found[i].id, AErrLocation) ]
                  /\ aData' = [ i \in 1..Len(found) |-> EmptyObject ]
                  /\ UNCHANGED aResult
  /\ UNCHANGED << aRequester, aUserId, aIds, served, extractVars, formVars, uiVars >>

ASettle(i, state, entry) ==
  /\ adpc' = [adpc EXCEPT ![i] = state]
  /\ aSlots' = [aSlots EXCEPT ![i] = entry]

\* s3.getObject of analyzeDocuments answers for document i
AS3Return(i, ok) ==
  /\ apc = "processing"
  /\ i \in DOMAIN adpc
  /\ adpc[i] = "s3"
  /\ ok => credentials.storage
  /\ IF ok
     THEN /\ adpc' = [adpc EXCEPT ![i] = "gen"]
          /\ UNCHANGED aSlots
     ELSE ASettle(i, "failed", ErrorEntry(aDocs[i].id, AErrStorage))
  /\ UNCHANGED << apc, aRequester, aUserId, aIds, aDocs, aData, aResult, served,
                  extractVars, formVars, uiVars >>

\* model.generateContent answers for document i; its failure is caught by the
\* handler of the storage error, a JSON.parse error by the jsonError handler
AGenReturn(i, ok, text) ==
  /\ apc = "processing"
  /\ i \in DOMAIN adpc
  /\ adpc[i] = "gen"
  /\ ok => credentials.generation
  /\ IF ~ok
     THEN /\ ASettle(i, "failed", ErrorEntry(aDocs[i].id, AErrGeneration))
          /\ UNCHANGED aData
     ELSE IF ParseThrows(text)
     THEN /\ ASettle(i, "failed", RawTextEntry(aDocs[i].id))
          /\ UNCHANGED aData
     ELSE /\ adpc' = [adpc EXCEPT ![i] = "db"]
          /\ aData' = [aData EXCEPT ![i] = AnalyzeParse(text)]
          /\ UNCHANGED aSlots
  /\ UNCHANGED << apc, aRequester, aUserId, aIds, aDocs, aResult, served,
                  extractVars, formVars, uiVars >>

\* Document.findOneAndUpdate({ _id, userId }, { analysis }) answers for document i
ADbReturn(i, ok) ==
  /\ apc = "processing"
  /\ i \in DOMAIN adpc
  /\ adpc[i] = "db"
  /\ IF ok
     THEN /\ store' = [ j \in DOMAIN store |->
                          IF store[j].id = aDocs[i].id /\ store[j].userId = aUserId
                          THEN [store[j] EXCEPT !.analysis = aData[i], !.analysed = TRUE]
                          ELSE store[j] ]
          /\ ASettle(i, "done", AnalysisEntry(aDocs[i].id, aData[i]))
     ELSE /\ ASettle(i, "failed", RawTextEntry(aDocs[i].id))
          /\ UNCHANGED store
  /\ UNCHANGED << apc, aRequester, aUserId, aIds, aDocs, aData, aResult, served,
                  extractButStore, formVars, uiVars >>

\* { ...combined, ...doc.analysis }
Spread(combined, a) ==
  [ k \in DOMAIN combined \cup DOMAIN a |-> IF HasKey(a, k) THEN a[k] ELSE combined[k] ]

\* processedDocs.reduce(...): every entry with an analysis is spread over the rest
RECURSIVE CombineFrom(_, _, _)
CombineFrom(docs, i, combined) ==
  IF i > Len(docs) THEN combined
  ELSE CombineFrom(docs, i + 1,
                   IF docs[i].hasAnalysis THEN Spread(combined, docs[i].analysis)
                   ELSE combined)
CombineDocs(docs) == CombineFrom(docs, 1, EmptyObject)

\* if (!combinedData.personalInfo) ... address ... income
MissingSections(cd) == SelectSeq(Sections, LAMBDA f : ~TruthyAt(cd, f))

\* Promise.all of analyzeDocuments resolves: combine, missing sections, res.json
AnalyzeCombine ==
  /\ apc = "processing"
  /\ AllSettled(adpc)
  /\ apc' = "returned"
  /\ aResult' = [status |-> 200, error |-> "", documents |-> aSlots,
                 extractedData |-> CombineDocs(aSlots),
                 missingFields |-> MissingSections(CombineDocs(aSlots))]
  /\ UNCHANGED << aRequester, aUserId, aIds, aDocs, adpc, aData, aSlots, served,
                  extractVars, formVars, uiVars >>

\* answers tried where the route is followed step by step
AnalyzeHandlerTexts ==
  TextsOver({ EmptyObject, [k \in {"personalInfo"} |-> Obj("A")] })

\* answers tried for the combination: each section absent, null or one of two objects
SectionKeys == {"personalInfo", "income"}
SectionObjects ==
  UNION { [K -> {Null, Obj("A"), Obj("B")}] : K \in SUBSET SectionKeys }
SectionTexts == TextsOver(SectionObjects)

AnalyzeOutcomes ==
  { [kind |-> k, text |-> NoJsonText, dbOk |-> TRUE] :
      k \in {"noLocation", "storage", "generation"} }
  \cup { [kind |-> "text", text |-> t, dbOk |-> TRUE] : t \in SectionTexts }
  \cup { [kind |-> "text", text |-> t, dbOk |-> FALSE] : t \in AnalyzeHandlerTexts }

\* the entry the map callback of analyzeDocuments returns for an outcome
AnalyzeEntryOf(id, o) ==
  IF o.kind = "noLocation" THEN ErrorEntry(id, AErrLocation)
  ELSE IF o.kind = "storage" THEN ErrorEntry(id, AErrStorage)
  ELSE IF o.kind = "generation" THEN ErrorEntry(id, AErrGeneration)
  ELSE IF ParseThrows(o.text) \/ ~o.dbOk THEN RawTextEntry(id)
  ELSE AnalysisEntry(id, AnalyzeParse(o.text))

\* analyzeDocuments at its fan-in point for the first user's documents, every
\* document settled
CombineInit ==
  \E n \in 1..Min(MaxDocs, NumOwned) : \E outs \in [1..n -> AnalyzeOutcomes] :
    /\ store = [ i \in StoredIds |->
                   IF i <= n /\ Stored(outs[i])
                   THEN [StoredDocument(i, TRUE) EXCEPT
                           !.analysis = AnalyzeParse(outs[i].text), !.analysed = TRUE]
                   ELSE StoredDocument(i, ~(i <= n /\ outs[i].kind = "noLocation")) ]
    /\ ExtractAtRest
    /\ credentials = AllCredentials
    /\ apc = "processing"
    /\ aRequester = "u1"
    /\ aUserId = "u1"
    /\ aIds = [ i \in 1..n |-> i ]
    /\ aDocs = [ i \in 1..n |-> StoredDocument(i, outs[i].kind # "noLocation") ]
    /\ adpc = [ i \in 1..n |->
                  IF AnalyzeEntryOf(i, outs[i]).error = NoError THEN "done" ELSE "failed" ]
    /\ aData = [ i \in 1..n |->
                   IF ReachedDb(outs[i]) THEN AnalyzeParse(outs[i].text) ELSE EmptyObject ]
    /\ aSlots = [ i \in 1..n |-> AnalyzeEntryOf(i, outs[i]) ]
    /\ aResult = NoResult
    /\ served = NoServed

\* an empty registry, nothing requested yet
RegistryEmpty ==
  /\ store = << >>
  /\ ExtractAtRest
  /\ credentials \in CredentialStates

(***************************************************************************)
(* The chat routes: router.post('/') of routes/chat.ts and                 *)
(* router.post('/chat') of routes/gemini.ts, each with its own             *)
(* userChatHistory.                                                        *)
(***************************************************************************)
Routers == {"chat", "gemini"}
ChatSlots == 1..MaxInFlight

\* an entry of a history; req stands for the text: the message of request req
\* for role user, the answer to it for role assistant
HistoryEntry(role, req) == [role |-> role, req |-> req]

\* if (history.length > 10) history = history.slice(-10)
LimitHistory(h) ==
  IF Len(h) > HistoryLimit THEN SubSeq(h, Len(h) - HistoryLimit + 1, Len(h)) ELSE h

NoChatReq == [pc |-> "idle", router |-> "", user |-> "", req |-> 0]

ChatInit ==
  /\ userChatHistory = [ r \in Routers |-> [ u \in Users |-> << >> ] ]
  /\ chatReqs = [ s \in ChatSlots |-> NoChatReq ]
  /\ chatCount = 0
  /\ chatAnswer = 0

\* a request in flight takes the first free place
FreeSlot(s) ==
  /\ chatReqs[s].pc = "idle"
  /\ \A t \in ChatSlots : t < s => chatReqs[t].pc # "idle"

\* userChatHistory[userId].push(entry)
PushHistory(r, u, entry) ==
  userChatHistory' = [userChatHistory EXCEPT ![r][u] = Append(@, entry)]

\* the request reaches router.post('/') of routes/chat.ts: authenticateUser, the
\* checks of message and documentIds, then Document.find is issued
ChatPost(s, caller, message, ids) ==
  /\ FreeSlot(s)
  /\ chatCount < MaxChatRequests
  /\ IF caller \notin Users
     THEN /\ chatAnswer' = 401
          /\ UNCHANGED << chatReqs, chatCount >>
     ELSE IF message = "" \/ Len(ids) = 0
     THEN /\ chatAnswer' = 400
          /\ UNCHANGED << chatReqs, chatCount >>
     ELSE /\ chatCount' = chatCount + 1
          /\ chatReqs' = [chatReqs EXCEPT ![s] =
                            [pc |-> "find", router |-> "chat", user |-> caller,
                             req |-> chatCount']]
          /\ UNCHANGED chatAnswer
  /\ UNCHANGED << userChatHistory, dashboardVars, outsideSession >>

\* Document.find of routes/chat.ts returns: none found is a 404, otherwise the
\* user message is pushed and chat.sendMessage is issued
ChatFindReturn(s, outcome) ==
  /\ chatReqs[s].pc = "find"
  /\ chatReqs[s].router = "chat"
  /\ IF outcome = "error"
     THEN /\ chatAnswer' = 500
          /\ chatReqs' = [chatReqs EXCEPT ![s] = NoChatReq]
          /\ UNCHANGED userChatHistory
     ELSE IF outcome = "none"
     THEN /\ chatAnswer' = 404
          /\ chatReqs' = [chatReqs EXCEPT ![s] = NoChatReq]
          /\ UNCHANGED userChatHistory
     ELSE /\ PushHistory("chat", chatReqs[s].user, HistoryEntry("user", chatReqs[s].req))
          /\ chatReqs' = [chatReqs EXCEPT ![s].pc = "gen"]
          /\ UNCHANGED chatAnswer
  /\ UNCHANGED << chatCount, dashboardVars, outsideSession >>

\* startChat / sendMessage has thrown, or has answered: the answer is pushed
\* and the history cut to its last 10 entries
AnswerReturn(s, r, ok) ==
  /\ chatReqs[s].pc = "gen"
  /\ chatReqs[s].router = r
  /\ chatReqs' = [chatReqs EXCEPT ![s] = NoChatReq]
  /\ IF ok
     THEN /\ userChatHistory' =
               [userChatHistory EXCEPT ![r][chatReqs[s].user] =
                  LimitHistory(Append(@, HistoryEntry("assistant", chatReqs[s].req)))]
          /\ chatAnswer' = 200
     ELSE /\ chatAnswer' = 500
          /\ UNCHANGED userChatHistory
  /\ UNCHANGED << chatCount, dashboardVars, outsideSession >>

ChatGenReturn(s, ok) == AnswerReturn(s, "chat", ok)

\* the request reaches router.post('/chat') of routes/gemini.ts: authenticateUser,
\* the check of message, the push of the user message, then Document.find is issued
GeminiPost(s, caller, message) ==
  /\ FreeSlot(s)
  /\ chatCount < MaxChatRequests
  /\ IF caller \notin Users
     THEN /\ chatAnswer' = 401
          /\ UNCHANGED << chatReqs, chatCount, userChatHistory >>
     ELSE IF message = ""
     THEN /\ chatAnswer' = 400
          /\ UNCHANGED << chatReqs, chatCount, userChatHistory >>
     ELSE /\ chatCount' = chatCount + 1
          /\ PushHistory("gemini", caller, HistoryEntry("user", chatCount'))
          /\ chatReqs' = [chatReqs EXCEPT ![s] =
                            [pc |-> "find", router |-> "gemini", user |-> caller,
                             req |-> chatCount']]
          /\ UNCHANGED chatAnswer
  /\ UNCHANGED << dashboardVars, outsideSession >>

\* Document.find of routes/gemini.ts returns; chat.sendMessage is issued
GeminiFindReturn(s, ok) ==
  /\ chatReqs[s].pc = "find"
  /\ chatReqs[s].router = "gemini"
  /\ IF ok
     THEN /\ chatReqs' = [chatReqs EXCEPT ![s].pc = "gen"]
          /\ UNCHANGED chatAnswer
     ELSE /\ chatAnswer' = 500
          /\ chatReqs' = [chatReqs EXCEPT ![s] = NoChatReq]
  /\ UNCHANGED << userChatHistory, chatCount, dashboardVars, outsideSession >>

GeminiGenReturn(s, ok) == AnswerReturn(s, "gemini", ok)

\* who may call, and what the body may carry; the chat router is tried with
\* one signed-in user, the gemini router with both
ChatCallers == {"u1", "anonymous"}
GeminiCallers == Users \cup {"anonymous"}
ChatMessages == {"", "question"}

ChatNext ==
  \/ \E s \in ChatSlots, c \in ChatCallers, m \in ChatMessages, ids \in SeqsUpTo({1}, 1) :
       ChatPost(s, c, m, ids)
  \/ \E s \in ChatSlots, outcome \in {"error", "none", "some"} : ChatFindReturn(s, outcome)
  \/ \E s \in ChatSlots, ok \in BOOLEAN : ChatGenReturn(s, ok)

GeminiNext ==
  \/ \E s \in ChatSlots, c \in GeminiCallers, m \in ChatMessages : GeminiPost(s, c, m)
  \/ \E s \in ChatSlots, ok \in BOOLEAN : GeminiFindReturn(s, ok)
  \/ \E s \in ChatSlots, ok \in BOOLEAN : GeminiGenReturn(s, ok)

(***************************************************************************)
(* The tabs of the Dashboard component: handleTabChange and its two timers.*)
(***************************************************************************)
Tabs == {"upload", "analysis", "chat"}

DashboardInit ==
  /\ activeTab = "upload"
  /\ isTransitioning = FALSE
  /\ switchTimers = << >>
  /\ settleTimers = 0
  /\ lastClick = ""
  /\ clicks = 0

\* a click on a tab button: handleTabChange(tab) of the last render
handleTabChange(tab) ==
  /\ clicks < MaxClicks
  /\ clicks' = clicks + 1
  /\ lastClick' = tab
  /\ IF tab # activeTab
     THEN /\ isTransitioning' = TRUE
          /\ switchTimers' = Append(switchTimers, tab)
     ELSE UNCHANGED << isTransitioning, switchTimers >>
  /\ UNCHANGED << activeTab, settleTimers, chatVars, outsideSession >>

\* the oldest 300 ms timer fires: setActiveTab(tab), and the 50 ms timer is set
SwitchTimeout ==
  /\ Len(switchTimers) > 0
  /\ activeTab' = Head(switchTimers)
  /\ switchTimers' = Tail(switchTimers)
  /\ settleTimers' = settleTimers + 1
  /\ UNCHANGED << isTransitioning, lastClick, clicks, chatVars, outsideSession >>

\* a 50 ms timer fires: setIsTransitioning(false)
SettleTimeout ==
  /\ settleTimers > 0
  /\ settleTimers' = settleTimers - 1
  /\ isTransitioning' = FALSE
  /\ UNCHANGED << activeTab, switchTimers, lastClick, clicks, chatVars, outsideSession >>

DashboardNext ==
  \/ \E tab \in Tabs : handleTabChange(tab)
  \/ SwitchTimeout
  \/ SettleTimeout

(***************************************************************************)
(* What the TaxAnalysis component shows of a record: the summary and the   *)
(* document drawn by generateTaxFormPDF.                                   *)
(***************************************************************************)
\* the options of the filing-status select of the manual form
filingStatusOptions ==
  << Str(<<"single">>), Str(<<"married_joint">>), Str(<<"married_separate">>),
     Str(<<"head_household">>), Str(<<"qualifying_widow">>) >>

\* the fields rendered once formData is set and no field is missing
SummaryShown == cFormData.set /\ Len(cMissingFields) = 0
SummaryFields(fd) ==
  [name |-> << Show(Get(fd, "firstName")), Show(Get(fd, "lastName")) >>,
   ssn |-> << <<"XXX-XX-">>, SliceLast4(Get(fd, "ssn").s) >>,
   filingStatus |-> Show(Get(fd, "filingStatus")),
   address |-> << Show(Get(fd, "address")), Show(Get(fd, "city")),
                  Show(Get(fd, "state")), Show(Get(fd, "zip")) >>,
   amounts |-> << Get(fd, "wages"), Get(fd, "interest"), Get(fd, "dividends"),
                  Get(fd, "capitalGains") >>]

\* incomeItems of generateTaxFormPDF
clientIncomeItems(fd) ==
  << Item("Wages, salaries, tips", Get(fd, "wages")),
     Item("Taxable interest", OrElse(Get(fd, "interest"), Num(0))),
     Item("Qualified dividends", OrElse(Get(fd, "dividends"), Num(0))),
     Item("Capital gain or (loss)", OrElse(Get(fd, "capitalGains"), Num(0))),
     Item("Other income", OrElse(Get(fd, "otherIncome"), Num(0))) >>

\* incomeItems.reduce((sum, item) => sum + item.value, 0)
clientTotalIncome(fd) ==
  LET items == clientIncomeItems(fd)
  IN Add(Add(Add(Add(Add(Num(0), items[1].amount), items[2].amount), items[3].amount),
             items[4].amount), items[5].amount)

\* formData.ssn.slice and item.value.toLocaleString throw a TypeError
ClientPdfThrows(fd) ==
  \/ Get(fd, "ssn").ty # "str"
  \/ ~HasMethods(Get(fd, "wages"))

\* the page drawn by generateTaxFormPDF and the name it is saved under
ClientPdf(fd) ==
  LET agi == Sub(clientTotalIncome(fd), OrElse(Get(fd, "adjustments"), Num(0)))
      deduction == OrElse(Get(fd, "deductions"), Num(12950 * 100))
  IN [produced |-> TRUE,
      name |-> << Show(Get(fd, "firstName")), Show(Get(fd, "lastName")) >>,
      ssn |-> << <<"XXX-XX-">>, SliceLast4(Get(fd, "ssn").s) >>,
      filingStatus |-> Show(Get(fd, "filingStatus")),
      address |-> << Show(Get(fd, "address")), Show(Get(fd, "city")),
                     Show(Get(fd, "state")), Show(Get(fd, "zip")) >>,
      incomeItems |-> clientIncomeItems(fd),
      totalIncome |-> clientTotalIncome(fd),
      adjustments |-> OrElse(Get(fd, "adjustments"), Num(0)),
      agi |-> agi,
      deduction |-> deduction,
      taxableIncome |-> MaxZero(Sub(agi, deduction)),
      fileName |-> << Show(Get(fd, "lastName")), Show(Get(fd, "firstName")) >>]

ViewInit ==
  /\ clientPdf = NoPdf
  /\ clientError = ""

\* the Generate 1040 Form button: handleGenerateForm and generateTaxFormPDF
generateTaxFormPDF ==
  /\ SummaryShown
  /\ IF ClientPdfThrows(cFormData.data)
     THEN /\ clientError' = "Failed to generate tax form PDF. Please try again."
          /\ UNCHANGED clientPdf
     ELSE /\ clientPdf' = ClientPdf(cFormData.data)
          /\ UNCHANGED clientError
  /\ UNCHANGED << clientVars, chatVars, dashboardVars,
                  extractVars, formVars, accessVars, completeVars >>

SessionInit == ChatInit /\ DashboardInit /\ ViewInit

(***************************************************************************)
(* Completing a record: router.post('/complete-tax-form') on the server    *)
(* and the TaxAnalysis component of the client.                            *)
(***************************************************************************)
\* the amount, in cents, the leading numeral of a string stands for
Numerals == [ t \in {"500", "0"} |-> IF t = "500" THEN 50000 ELSE 0 ]

\* parseFloat(value)
parseFloat(v) ==
  IF v.ty = "num" THEN v
  ELSE IF v.ty = "str" /\ Len(v.s) > 0 /\ v.s[1] \in DOMAIN Numerals
  THEN Num(Numerals[v.s[1]])
  ELSE NaN

\* Object.entries(additionalInfo).forEach(...) applied to a copy of fd: the
\* amounts through parseFloat(value) || 0, the other keys as they come
MergeAdditional(fd, info) ==
  [ k \in DOMAIN fd \cup DOMAIN info |->
      IF HasKey(info, k)
      THEN IF k \in NumericFields THEN OrElse(parseFloat(info[k]), Num(0)) ELSE info[k]
      ELSE fd[k] ]

\* a member of req.body that may be missing
Absent == [present |-> FALSE, data |-> EmptyObject]
Given(obj) == [present |-> TRUE, data |-> obj]

NoCompleteResponse == [status |-> 0, error |-> "", formData |-> EmptyObject]
CompleteError(code, msg) == [status |-> code, error |-> msg, formData |-> EmptyObject]

CompleteIdle ==
  /\ kpc = "idle"
  /\ currentFormData = Absent
  /\ additionalInfo = Absent
  /\ updatedFormData = EmptyObject
  /\ completeResponse = NoCompleteResponse

\* the request arrives: the check of currentFormData, the copy and the loop over
\* additionalInfo (Object.entries throws on undefined), then generateContent is issued
CompleteRequest(cur, info) ==
  /\ kpc = "idle"
  /\ currentFormData' = cur
  /\ additionalInfo' = info
  /\ IF ~cur.present
     THEN /\ kpc' = "answered"
          /\ completeResponse' = CompleteError(400, "Current form data is required")
          /\ UNCHANGED updatedFormData
     ELSE IF ~info.present
     THEN /\ kpc' = "answered"
          /\ completeResponse' = CompleteError(500, "Failed to complete tax form")
          /\ UNCHANGED updatedFormData
     ELSE /\ kpc' = "gen"
          /\ updatedFormData' = MergeAdditional(cur.data, info.data)
          /\ UNCHANGED completeResponse
  /\ UNCHANGED << extractVars, formVars, accessVars, clientVars, sessionVars >>

\* what the generation capability may send back for the record u it was shown
EnhancedTexts(u) ==
  TextsOver({ u, With(u, "firstName", Str(<<"Jon">>)), With(u, "zip", Undefined) })

\* generateContent answers: the JSON found in the text is the formData sent
\* back, updatedFormData when none is found or it does not parse
CompleteGenReturn(ok, text) ==
  /\ kpc = "gen"
  /\ ok => credentials.generation
  /\ kpc' = "answered"
  /\ completeResponse' =
       IF ~ok THEN CompleteError(500, "Failed to complete tax form")
       ELSE [status |-> 200, error |-> "",
             formData |-> IF text.match # "none" /\ text.valid THEN text.obj
                          ELSE updatedFormData]
  /\ UNCHANGED << currentFormData, additionalInfo, updatedFormData,
                  extractVars, formVars, accessVars, clientVars, sessionVars >>

\* records and answers tried
CurrentRecords ==
  { CompleteRecord, With(CompleteRecord, "zip", Undefined), With(CompleteRecord, "wages", Null) }
AdditionalAnswers ==
  UNION { { o \in [K -> {Str(<< >>), Str(<<"12345">>), Str(<<"500">>), Str(<<"abc">>)}] :
              \A k \in K : IF k \in NumericFields
                           THEN o[k] \in {Str(<< >>), Str(<<"500">>), Str(<<"abc">>)}
                           ELSE o[k] \in {Str(<< >>), Str(<<"12345">>)} } :
          K \in SUBSET {"zip", "wages", "otherIncome"} }

\* simulatedFormData and simulatedMissingFields of handleAnalyzeDocuments
simulatedFormData ==
  [ k \in Vocabulary |->
      IF k = "filingStatus" THEN Str(<<"Single">>)
      ELSE IF k \in {"otherIncome", "adjustments"} THEN Num(0)
      ELSE IF k = "deductions" THEN Num(12950 * 100)
      ELSE CompleteRecord[k] ]
simulatedMissingFields == << "otherIncome", "adjustments" >>

\* useState of manualFormData
InitialManualFormData ==
  [ k \in Vocabulary |->
      IF k \in NumericFields THEN Num(0)
      ELSE IF k = "filingStatus" THEN Str(<<"single">>)
      ELSE Str(<< >>) ]

NoForm == [set |-> FALSE, data |-> EmptyObject]
NotCompleting == [pending |-> FALSE, formData |-> NoForm, additionalInfo |-> EmptyObject]

ClientInit ==
  /\ cFormData = NoForm
  /\ cMissingFields = << >>
  /\ cAdditionalInfo = EmptyObject
  /\ showManualEntry = FALSE
  /\ manualFormData = InitialManualFormData
  /\ analyzing = FALSE
  /\ completing = NotCompleting
  /\ lastHandler = ""

UiInit == CompleteIdle /\ ClientInit /\ SessionInit

outsideClient == << extractVars, formVars, accessVars, completeVars, sessionVars >>

\* the Analyze button, shown while there is no formData and no manual form and
\* enabled while no analysis runs: handleAnalyzeDocuments up to its timer
ClickAnalyze ==
  /\ ~cFormData.set /\ ~showManualEntry /\ ~analyzing
  /\ analyzing' = TRUE
  /\ UNCHANGED << cFormData, cMissingFields, cAdditionalInfo, showManualEntry,
                  manualFormData, completing, lastHandler, outsideClient >>

\* handleAnalyzeDocuments after its timer
AnalyzeTimeout ==
  /\ analyzing
  /\ cFormData' = [set |-> TRUE, data |-> simulatedFormData]
  /\ cMissingFields' = simulatedMissingFields
  /\ cAdditionalInfo' = [ k \in Range(simulatedMissingFields) |-> Str(<< >>) ]
  /\ analyzing' = FALSE
  /\ lastHandler' = "analyze"
  /\ UNCHANGED << showManualEntry, manualFormData, completing, outsideClient >>

\* the Manual Entry button
ClickManualEntry ==
  /\ ~cFormData.set /\ ~showManualEntry
  /\ showManualEntry' = TRUE
  /\ UNCHANGED << cFormData, cMissingFields, cAdditionalInfo, manualFormData,
                  analyzing, completing, lastHandler, outsideClient >>

handleManualEntryChange(field, value) ==
  /\ showManualEntry
  /\ manualFormData' = With(manualFormData, field, value)
  /\ UNCHANGED << cFormData, cMissingFields, cAdditionalInfo, showManualEntry,
                  analyzing, completing, lastHandler, outsideClient >>

\* the Cancel button of the manual form
CancelManualEntry ==
  /\ showManualEntry
  /\ showManualEntry' = FALSE
  /\ UNCHANGED << cFormData, cMissingFields, cAdditionalInfo, manualFormData,
                  analyzing, completing, lastHandler, outsideClient >>

handleSubmitManualEntry ==
  /\ showManualEntry
  /\ cFormData' = [set |-> TRUE, data |-> manualFormData]
  /\ cMissingFields' = << >>
  /\ showManualEntry' = FALSE
  /\ lastHandler' = "manual"
  /\ UNCHANGED << cAdditionalInfo, manualFormData, analyzing, completing, outsideClient >>

\* the input rendered for a missing field
handleAdditionalInfoChange(field, value) ==
  /\ cFormData.set
  /\ field \in Range(cMissingFields)
  /\ cAdditionalInfo' = With(cAdditionalInfo, field, value)
  /\ UNCHANGED << cFormData, cMissingFields, showManualEntry, manualFormData,
                  analyzing, completing, lastHandler, outsideClient >>

\* the Complete Form button: handleCompleteForm up to its timer, holding the
\* formData and additionalInfo of the render it was created in
ClickComplete ==
  /\ cFormData.set /\ Len(cMissingFields) > 0
  /\ ~completing.pending
  /\ completing' = [pending |-> TRUE, formData |-> cFormData,
                    additionalInfo |-> cAdditionalInfo]
  /\ UNCHANGED << cFormData, cMissingFields, cAdditionalInfo, showManualEntry,
                  manualFormData, analyzing, lastHandler, outsideClient >>

\* handleCompleteForm after its timer
CompleteTimeout ==
  /\ completing.pending
  /\ completing' = [completing EXCEPT !.pending = FALSE]
  /\ IF completing.formData.set
     THEN /\ cFormData' = [set |-> TRUE,
                           data |-> MergeAdditional(completing.formData.data,
                                                    completing.additionalInfo)]
          /\ cMissingFields' = << >>
          /\ lastHandler' = "complete"
     ELSE UNCHANGED << cFormData, cMissingFields, lastHandler >>
  /\ UNCHANGED << cAdditionalInfo, showManualEntry, manualFormData, analyzing,
                  outsideClient >>

\* edits tried in the manual form and in the inputs of the missing fields
ManualEdits ==
  { [field |-> "firstName", value |-> Str(<<"Ann">>)],
    [field |-> "firstName", value |-> Str(<< >>)],
    [field |-> "zip", value |-> Str(<<"12345">>)],
    [field |-> "filingStatus", value |-> Str(<<"head_household">>)],
    [field |-> "wages", value |-> Num(50000 * 100)],
    [field |-> "wages", value |-> Num(0)] }
AdditionalEdits ==
  { [field |-> f, value |-> v] :
      f \in Range(simulatedMissingFields), v \in {Str(<< >>), Str(<<"500">>), Str(<<"abc">>)} }

ClientNext ==
  \/ ClickAnalyze
  \/ AnalyzeTimeout
  \/ ClickManualEntry
  \/ \E e \in ManualEdits : handleManualEntryChange(e.field, e.value)
  \/ CancelManualEntry
  \/ handleSubmitManualEntry
  \/ \E e \in AdditionalEdits : handleAdditionalInfoChange(e.field, e.value)
  \/ ClickComplete
  \/ CompleteTimeout

\* ssn texts tried: the first n digits of 123456789123..., the dashed form of
\* the placeholder, and nine digits followed by a blank
SsnOfLen(n) == [ i \in 1..n |-> SampleSsn[((i - 1) % 9) + 1] ]
SsnTexts ==
  { SsnOfLen(n) : n \in 0..MaxSsnLen }
  \cup { <<"1", "2", "3", "-", "4", "5", "-", "6", "7", "8", "9">>,
         Append(SampleSsn, " ") }

\* what is typed into the ssn input and chosen in the filing-status select
RenderEdits ==
  { [field |-> "ssn", value |-> Str(t)] : t \in SsnTexts }
  \cup { [field |-> "filingStatus", value |-> st] : st \in Range(filingStatusOptions) }

\* records of the manual form handed to the generate-1040 endpoints
RenderRecords ==
  { With(With(CompleteRecord, "ssn", Str(t)), "filingStatus", st) :
      t \in SsnTexts, st \in Range(filingStatusOptions) }

RenderNext ==
  \/ ClickManualEntry
  \/ \E e \in RenderEdits : handleManualEntryChange(e.field, e.value)
  \/ handleSubmitManualEntry
  \/ generateTaxFormPDF
  \/ \E body \in RenderRecords : ServerGenerate1040(body)
  \/ \E data \in RenderRecords : RouterGenerate1040(TRUE, data)

CompleteNext ==
  \/ \E cur \in {Absent} \cup { Given(r) : r \in CurrentRecords },
        info \in {Absent} \cup { Given(a) : a \in AdditionalAnswers } :
       CompleteRequest(cur, info)
  \/ \E ok \in BOOLEAN, text \in EnhancedTexts(updatedFormData) : CompleteGenReturn(ok, text)

vars == << extractVars, formVars, accessVars, uiVars >>

\* the registry at rest, no extract-tax-info request under way
ExtractIdle ==
  /\ store = [ i \in StoredIds |-> StoredDocument(i, TRUE) ]
  /\ pc = "idle"
  /\ userId = ""
  /\ documentIds = << >>
  /\ documents = << >>
  /\ dpc = << >>
  /\ analysisData = << >>
  /\ slots = << >>
  /\ arrival = << >>
  /\ formData = EmptyObject
  /\ missingFields = << >>
  /\ response = NoResponse
  /\ credentials = AllCredentials

Init == ExtractInit /\ FormInit /\ AccessInit /\ UiInit

MergeNext ==
  \/ MergeResults
  \/ \E ok \in BOOLEAN : UpdateReturn(ok)

InitMerge == SettledInit /\ FormInit /\ AccessInit /\ UiInit

SpecMerge == InitMerge /\ [][MergeNext]_vars

FormNext ==
  \/ \E body \in FormInputs : ServerGenerate1040(body)
  \/ \E present \in BOOLEAN, data \in FormInputs : RouterGenerate1040(present, data)

InitForm == ExtractIdle /\ FormInit /\ AccessInit /\ UiInit

SpecForm == InitForm /\ [][FormNext]_vars

\* callers of the unauthenticated routes, and what req.body.userId may hold
Callers == Users
BodyUsers == Users \cup {""}

AccessNext ==
  \/ \E u \in Users, ok \in BOOLEAN : RouterUpload(u, ok)
  \/ \E c \in Callers, bearer \in BOOLEAN, ok \in BOOLEAN : ServerUpload(c, bearer, ok)
  \/ \E c \in Callers, ok \in BOOLEAN : ServerListDocuments(c, ok)
  \/ \E u \in Users, id \in 0..MaxUploads, ok \in BOOLEAN : RouterGetDocument(u, id, ok)
  \/ \E c \in Callers, b \in BodyUsers, ids \in SeqsUpTo(0..MaxUploads, 1) :
       AnalyzeRequest(c, b, ids)
  \/ \E ok \in BOOLEAN : AnalyzeFind(ok)
  \/ \E i \in 1..MaxUploads, ok \in BOOLEAN : AS3Return(i, ok)
  \/ \E i \in 1..MaxUploads, ok \in BOOLEAN, text \in AnalyzeHandlerTexts :
       AGenReturn(i, ok, text)
  \/ \E i \in 1..MaxUploads, ok \in BOOLEAN : ADbReturn(i, ok)
  \/ AnalyzeCombine

InitAccess == RegistryEmpty /\ FormInit /\ AccessInit /\ UiInit

SpecAccess == InitAccess /\ [][AccessNext]_vars

InitCombine == CombineInit /\ FormInit /\ UiInit

SpecCombine == InitCombine /\ [][AnalyzeCombine]_vars

\* everything at rest but the form completion
InitUi == ExtractIdle /\ FormInit /\ AccessInit /\ UiInit

SpecComplete == InitUi /\ [][CompleteNext]_vars

SpecClient == InitUi /\ [][ClientNext]_vars

SpecRender == InitUi /\ [][RenderNext]_vars

SpecChat == InitUi /\ [][ChatNext]_vars

SpecGemini == InitUi /\ [][GeminiNext]_vars

SpecDashboard == InitUi /\ [][DashboardNext]_vars

Next ==
  \/ \E u \in Users, ids \in SeqsUpTo(RequestIds, MaxDocs) : Request(u, ids)
  \/ \E ok \in BOOLEAN : FindReturn(ok)
  \/ \E i \in 1..MaxDocs, ok \in BOOLEAN : S3Return(i, ok)
  \/ \E i \in 1..MaxDocs, ok \in BOOLEAN, text \in HandlerTexts : GenReturn(i, ok, text)
  \/ \E i \in 1..MaxDocs, ok \in BOOLEAN : DbReturn(i, ok)
  \/ MergeResults
  \/ \E ok \in BOOLEAN : UpdateReturn(ok)

Spec == Init /\ [][Next]_vars

(***************************************************************************)
(* Properties of the extract-tax-info merge.                               *)
(***************************************************************************)
\* the merge of the request has run
Merged == pc \in {"update", "responded", "failed_update"}

RemoveAt(seq, i) == SubSeq(seq, 1, i - 1) \o SubSeq(seq, i + 1, Len(seq))

\* document entry d gives field k a non-null value
Supplies(d, k) == Contributes(d) /\ HasKey(d.analysis, k) /\ d.analysis[k] # Null
Suppliers(docs, k) == { i \in 1..Len(docs) : Supplies(docs[i], k) }
FirstOf(S) == CHOOSE i \in S : \A j \in S : i <= j

\* fd holds, for field k, the first non-null value of docs in list order (none: absent)
FirstNonNullWins(fd, docs, k) ==
  IF Suppliers(docs, k) = {}
  THEN ~HasKey(fd, k)
  ELSE HasKey(fd, k) /\ fd[k] = docs[FirstOf(Suppliers(docs, k))].analysis[k]

\* C1: for every field of the vocabulary the merged value is the first non-null
\* value in list order, and a field once set (0 and "" included) is never changed
\* by a later document.
C1_FirstNonNullWins ==
  Merged => \A k \in Vocabulary : FirstNonNullWins(formData, slots, k)

\* C2: the i-th analysis merged belongs to documentIds[i], whatever order the
\* registry returns the records in.
C2_MergeFollowsDocumentIds ==
  Merged => \A i \in 1..Len(slots) : slots[i].documentId = documentIds[i]

\* the entries in the order their promises settled
ByArrival == [ i \in 1..Len(arrival) |-> slots[arrival[i]] ]

\* C3: the merge runs only after every extraction of the batch has settled, and
\* formData and missingFields are the merge of the entries in the order of the
\* documents array, whatever order the extractions completed in.
C3_FanInBarrier ==
  Merged =>
    /\ \A i \in 1..Len(documents) : dpc[i] \in {"done", "failed"} /\ slots[i] # PendingEntry
    /\ Len(arrival) = Len(documents)
    /\ formData = MergeDocs(slots)
    /\ missingFields = MissingOf(MergeDocs(slots))

\* reached: the second document settled first, and merging in completion order
\* would have given another record
C3_Witness ==
  /\ pc = "responded"
  /\ Len(documents) >= 2
  /\ arrival[1] # 1
  /\ MergeDocs(ByArrival) # MergeDocs(slots)
  /\ response.formData = MergeDocs(slots)

\* C4: missingFields is the required-field list filtered, in its order, to the
\* fields whose merged value is absent or null; a field is missing iff no document
\* supplied a non-null value for it (0 and "" are not missing).
C4_MissingIsAbsentOrNull ==
  Merged =>
    /\ missingFields =
         SelectSeq(requiredFields, LAMBDA f : ~HasKey(formData, f) \/ formData[f] = Null)
    /\ \A f \in Range(requiredFields) :
         f \in Range(missingFields) <=> Suppliers(slots, f) = {}

Unparsable(d) == d.hasAnalysis /\ d.analysis = ParseAnalysis(NoJsonText)
Failed(d) == d.error # NoError

\* C6: the missingFields of a batch is a subset of the missingFields of the batch
\* with any one of its documents (successful, error-marked or unparsable) removed.
C6_MissingMonotone ==
  Merged =>
    \A i \in 1..Len(slots) :
      Range(missingFields) \subseteq Range(MissingOf(MergeDocs(RemoveAt(slots, i))))

\* reached: a batch of two where one document is failed or unparsable and the
\* other removes a field from the missing list
C6_Witness ==
  /\ Merged
  /\ Len(slots) = 2
  /\ \E i \in 1..2 : Failed(slots[i]) \/ Unparsable(slots[i])
  /\ \E i \in 1..2 :
       Range(missingFields) # Range(MissingOf(MergeDocs(RemoveAt(slots, i))))

\* C7: a document whose answer holds neither a fenced json block nor a brace
\* substring carries an error marker and contributes no field to formData; the
\* merge is that of the other documents.
C7_UnparsableContributesNothing ==
  Merged =>
    \A i \in 1..Len(slots) :
      Unparsable(slots[i]) =>
        /\ Failed(slots[i]) \/ HasKey(slots[i].analysis, "error")
        /\ formData = MergeDocs(RemoveAt(slots, i))

\* indices of the batch whose extraction failed (location, storage, generation, parse)
FailedDocs == { i \in DOMAIN dpc : dpc[i] = "failed" }
Survivors == SelectSeq([ i \in 1..Len(slots) |-> i ], LAMBDA i : i \notin FailedDocs)
SurvivorEntries == [ j \in 1..Len(Survivors) |-> slots[Survivors[j]] ]

\* C8: a failure confined to documents never aborts the batch: only a registry
\* failure answers 500, and a success answer has one entry per requested document,
\* an error reason and no analysis on every failed one, and the formData obtained
\* by merging the other documents alone.
C8_PartialFailureTolerated ==
  /\ response.status = 500 => pc \in {"failed_find", "failed_update"}
  /\ pc = "responded" =>
       /\ response.status = 200 /\ response.success
       /\ Len(response.documents) = Len(documentIds)
       /\ { response.documents[i].documentId : i \in 1..Len(response.documents) }
            = Range(documentIds)
       /\ \A i \in FailedDocs :
            /\ response.documents[i].error # NoError
            /\ ~response.documents[i].hasAnalysis
            /\ response.documents[i].analysis = EmptyObject
       /\ response.formData = MergeDocs(SurvivorEntries)
       /\ response.missingFields = MissingOf(MergeDocs(SurvivorEntries))

\* reached: a success answer for a batch with one failed document, the wages of
\* the other document merged
C8_Witness ==
  /\ pc = "responded"
  /\ Len(documents) = 2
  /\ Cardinality(FailedDocs) = 1
  /\ response.success
  /\ TruthyAt(response.formData, "wages")

(***************************************************************************)
(* Properties of the generate-1040 endpoints and generate1040Form.         *)
(***************************************************************************)
\* a generate-1040 request that carried a record has been answered
Generated == gpc = "done" /\ genResponse.error # "Tax data is required"

\* the required fields absent or null in a record, in the order of the list
IncompleteFields(data) ==
  SelectSeq(requiredFields, LAMBDA f : Get(data, f).ty \in {"undefined", "null"})

\* C9: generating the return for a record with a required field absent or null
\* fails before any output is produced and reports the missing fields; no PDF is
\* returned for an incomplete record.
C9_IncompleteRecordRejected ==
  Generated /\ Len(IncompleteFields(taxData)) > 0 =>
    /\ ~genResponse.pdf.produced
    /\ genResponse.status # 200
    /\ Range(IncompleteFields(taxData)) \subseteq Range(genResponse.missingFields)

\* the deduction the claim names: the deductions value when greater than 0,
\* otherwise the standard deduction of the filing status
ClaimedDeduction(data) ==
  IF Get(data, "deductions").ty = "num" /\ Get(data, "deductions").n > 0
  THEN Get(data, "deductions")
  ELSE IF Get(data, "filingStatus") \in {Str(<<"single">>), Str(<<"married_separate">>)}
  THEN Num(12950 * 100)
  ELSE IF Get(data, "filingStatus") = Str(<<"head_of_household">>)
  THEN Num(19400 * 100)
  ELSE Num(25900 * 100)

\* C10: the deduction applied is the deductions value when it is greater than 0
\* and otherwise the standard deduction of the filing status (12950, 19400 or
\* 25900); the deduction line and the taxable income use the same amount.
C10_DeductionApplied ==
  Generated /\ genResponse.pdf.produced /\ Get(taxData, "filingStatus") \in FilingStatuses =>
    /\ genResponse.pdf.taxItems[1].amount = ClaimedDeduction(taxData)
    /\ genResponse.pdf.taxItems[3].amount =
         MaxZero(Sub(genResponse.pdf.adjustedItems[2].amount, ClaimedDeduction(taxData)))

\* the bracket table of the claim: lower and upper bound in whole units, rate in
\* percent, base in hundredths of a unit; the last bracket has no upper bound
BracketTable ==
  << [lower |-> 0,      upper |-> 10275,  rate |-> 10, base |-> 0],
     [lower |-> 10275,  upper |-> 41775,  rate |-> 12, base |-> 102750],
     [lower |-> 41775,  upper |-> 89075,  rate |-> 22, base |-> 480750],
     [lower |-> 89075,  upper |-> 170050, rate |-> 24, base |-> 1521350],
     [lower |-> 170050, upper |-> 215950, rate |-> 32, base |-> 3464750],
     [lower |-> 215950, upper |-> 539900, rate |-> 35, base |-> 4933550],
     [lower |-> 539900, upper |-> 0,      rate |-> 37, base |-> 16271800] >>

\* the bracket containing an income of c cents, an income equal to an upper
\* bound belonging to the lower bracket
BracketOf(c) ==
  CHOOSE i \in 1..7 :
    /\ c > BracketTable[i].lower * 100 \/ i = 1
    /\ i = 7 \/ c <= BracketTable[i].upper * 100

\* base + (t - lower) x rate in ten-thousandths, rounded to whole units (cents)
TableTax(c) ==
  LET b == BracketTable[BracketOf(c)]
      exact == b.base * 100 + (c - b.lower * 100) * b.rate
  IN ((exact + 5000) \div 10000) * 100

TaxLine == genResponse.pdf.taxItems[4].amount
TaxableLine == genResponse.pdf.taxItems[3].amount

\* C11: for every taxable income t >= 0 in whole cents the tax line is
\* base + (t - lower) x rate of the bracket containing t, rounded to the nearest
\* whole unit, whatever the filing status; t = 0 gives 0, t = 10275 gives 1028
\* and t = 41775 gives 4808.
C11_TaxBrackets ==
  Generated /\ genResponse.pdf.produced /\ TaxableLine.ty = "num" =>
    /\ TaxableLine.n >= 0
    /\ TaxLine = Num(TableTax(TaxableLine.n))
    /\ TaxableLine.n = 0 => TaxLine = Num(0)
    /\ TaxableLine.n = 1027500 => TaxLine = Num(102800)
    /\ TaxableLine.n = 4177500 => TaxLine = Num(480800)

\* reached: a joint return whose taxable income is the first bracket's upper bound,
\* taxed 1028 by the single table
C11_Witness ==
  /\ Generated /\ genResponse.pdf.produced
  /\ Get(taxData, "filingStatus") = Str(<<"married_joint">>)
  /\ TaxableLine = Num(1027500)
  /\ TaxLine = Num(102800)

\* the amount a numeric or absent field stands for in the claim's sums
AmountOr0(data, k) == IF Get(data, k).ty = "num" THEN Get(data, k).n ELSE 0
ClaimedTotalIncome(data) ==
  AmountOr0(data, "wages") + AmountOr0(data, "interest") + AmountOr0(data, "dividends")
    + AmountOr0(data, "capitalGains") + AmountOr0(data, "otherIncome")

\* the four required amounts of the record are numbers
HasIncomeAmounts(data) ==
  \A k \in {"wages", "interest", "dividends", "capitalGains"} : Get(data, k).ty = "num"

\* C12: for a record carrying its four required amounts, total income is
\* wages + interest + dividends + capitalGains + otherIncome and adjusted gross
\* income is total income minus adjustments, absent otherIncome and adjustments
\* counting 0; adjusted gross income is not clamped and is negative exactly when
\* adjustments exceed total income.
C12_TotalsAndAGI ==
  Generated /\ genResponse.pdf.produced /\ HasIncomeAmounts(taxData) =>
    /\ genResponse.pdf.incomeItems[13].amount = Num(ClaimedTotalIncome(taxData))
    /\ genResponse.pdf.adjustedItems[2].amount =
         Num(ClaimedTotalIncome(taxData) - AmountOr0(taxData, "adjustments"))
    /\ genResponse.pdf.adjustedItems[2].amount.n < 0
         <=> AmountOr0(taxData, "adjustments") > ClaimedTotalIncome(taxData)

\* reached: adjustments of 100000 against an income of 80550 with other income,
\* the adjusted gross income line negative
C12_Witness ==
  /\ Generated /\ genResponse.pdf.produced
  /\ HasKey(taxData, "otherIncome")
  /\ AmountOr0(taxData, "adjustments") > ClaimedTotalIncome(taxData)
  /\ genResponse.pdf.adjustedItems[2].amount = Num(-1945000)

\* C13: taxable income is max(0, adjusted gross income - applied deduction) for
\* every record; taxable income and the tax line are never negative, also when
\* adjustments exceed total income or the deduction exceeds adjusted gross income
\* (a record without an amount has no number on either line, hence no negative one).
C13_TaxableClamped ==
  Generated /\ genResponse.pdf.produced =>
    /\ TaxableLine =
         MaxZero(Sub(genResponse.pdf.adjustedItems[2].amount,
                     genResponse.pdf.taxItems[1].amount))
    /\ TaxableLine.ty = "num" => TaxableLine.n >= 0 /\ TaxLine.ty = "num"
    /\ TaxLine.ty = "num" => TaxLine.n >= 0
    /\ HasIncomeAmounts(taxData) => TaxableLine.ty = "num"

\* reached: a negative adjusted gross income, taxable income and tax both 0
C13_Witness ==
  /\ Generated /\ genResponse.pdf.produced
  /\ genResponse.pdf.adjustedItems[2].amount.n < 0
  /\ TaxableLine = Num(0)
  /\ TaxLine = Num(0)

(***************************************************************************)
(* Validation of the extracted fields.                                     *)
(***************************************************************************)
\* C14: whatever keys the answers carry, the merged formData has keys of the field
\* vocabulary only; any other key is discarded.
C14_VocabularyKeysOnly ==
  Merged => DOMAIN formData \subseteq Vocabulary

\* the value has the type its field expects
HasExpectedType(k, v) ==
  IF k \in NumericFields THEN v.ty = "num" ELSE v.ty = "str"

\* entry d with every ill-typed field of its analysis read as null
Coerced(d) ==
  [d EXCEPT !.analysis =
     [ k \in DOMAIN d.analysis |->
         IF k \in Vocabulary /\ ~HasExpectedType(k, d.analysis[k]) THEN Null
         ELSE d.analysis[k] ]]

\* C15: a parsed field whose value has not the type its field expects (number for
\* the amounts, string for the identity, address and filing-status fields) counts
\* as null: it is never copied into the merged formData, and the request does not
\* fail over it.
C15_IllTypedIsNull ==
  Merged =>
    /\ \A k \in Vocabulary \cap DOMAIN formData : HasExpectedType(k, formData[k])
    /\ formData = MergeDocs([ i \in 1..Len(slots) |-> Coerced(slots[i]) ])

(***************************************************************************)
(* Properties of configuration, ownership and analyzeDocuments.            *)
(***************************************************************************)
CredentialsMissing == ~credentials.generation \/ ~credentials.storage

\* C16: with the credentials of the generation capability or of storage missing,
\* an extraction request fails as a whole at once with a configuration error: no
\* storage or generation call is issued and no success answer with per-document
\* errors is given.
C16_ConfigurationError ==
  CredentialsMissing =>
    /\ pc \notin {"extracting", "update", "responded"}
    /\ response.status # 200
    /\ apc # "processing"
    /\ aResult.status # 200

\* the userId of the stored document with this id
OwnerOfStored(id) == (CHOOSE d \in Range(store) : d.id = id).userId

\* C17: no route returns, reads or analyses a document unless its userId is the
\* authenticated identity of the requester, after any sequence of uploads: the
\* listing, the single-document fetch and the analysis requests expose no document
\* of another user.
C17_OwnDocumentsOnly ==
  /\ served.status \in {200, 201} =>
       \A id \in served.ids : OwnerOfStored(id) = served.requester
  /\ apc \in {"processing", "returned"} =>
       \A i \in 1..Len(aDocs) : aDocs[i].userId = aRequester
  /\ pc \in {"extracting", "update", "responded"} =>
       \A i \in 1..Len(documents) : documents[i].userId = userId

\* analyzeDocuments has combined the entries of a batch
Combined == apc = "returned" /\ Len(aSlots) > 0

\* entry d gives key k a non-null value
Provides(d, k) == d.hasAnalysis /\ HasKey(d.analysis, k) /\ d.analysis[k] # Null
Providers(docs, k) == { i \in 1..Len(docs) : Provides(docs[i], k) }

\* C18: analyzeDocuments combines by first-wins: for every key extractedData holds
\* the value of the first document in order that provides a non-null value, never
\* replaced by a later document (one providing null included), and a section an
\* earlier document supplies is not reported missing.
C18_AnalyzeFirstWins ==
  Combined =>
    \A k \in Range(Sections) :
      Providers(aSlots, k) # {} =>
        /\ HasKey(aResult.extractedData, k)
        /\ aResult.extractedData[k] = aSlots[FirstOf(Providers(aSlots, k))].analysis[k]
        /\ k \notin Range(aResult.missingFields)

(***************************************************************************)
(* Properties of form completion.                                          *)
(***************************************************************************)
\* record after agrees with record before on every key of before not named in info
SameOutside(before, info, after) ==
  \A k \in DOMAIN before \ DOMAIN info : HasKey(after, k) /\ after[k] = before[k]

\* C19: completing a form (complete-tax-form on the server, handleCompleteForm in
\* the client) yields a record that differs from the current form data only in
\* the fields named in the additional answers: every other field of
\* currentFormData has the same value in the formData returned.
C19_CompletionFrame ==
  /\ completeResponse.status = 200 =>
       SameOutside(currentFormData.data, additionalInfo.data, completeResponse.formData)
  /\ lastHandler = "complete" =>
       SameOutside(completing.formData.data, completing.additionalInfo, cFormData.data)

\* C20: in the client, whenever formData is set and missingFields is empty (the
\* state in which Generate 1040 Form is offered), every field of the required-field
\* list has a value in formData that is neither null nor empty.
C20_ClientComplete ==
  cFormData.set /\ Len(cMissingFields) = 0 =>
    \A f \in Range(requiredFields) :
      /\ HasKey(cFormData.data, f)
      /\ cFormData.data[f] # Null
      /\ cFormData.data[f] # Str(<< >>)

(***************************************************************************)
(* Properties of the chat histories.                                       *)
(***************************************************************************)
\* a request of user u is under way on router r
InFlight(r, u) ==
  \E s \in ChatSlots :
    chatReqs[s].pc # "idle" /\ chatReqs[s].router = r /\ chatReqs[s].user = u

\* C21: the per-user chat history is bounded: after any sequence of chat requests
\* of a user, failed generation calls included, the stored history of that user
\* holds at most 10 entries whenever none of the user's requests is under way.
C21_HistoryBounded ==
  \A r \in Routers, u \in Users :
    ~InFlight(r, u) => Len(userChatHistory[r][u]) <= HistoryLimit

\* C24: in the history of the gemini chat route, under any interleaving of
\* requests of a user and any mix of successful and failed generation calls, the
\* entries alternate user, assistant, user, ... from a user entry on, and every
\* assistant entry comes right after the user message it answers.
C24_HistoryAlternates ==
  \A u \in Users :
    LET h == userChatHistory["gemini"][u]
    IN \A i \in 1..Len(h) :
         /\ h[i].role = (IF i % 2 = 1 THEN "user" ELSE "assistant")
         /\ h[i].role = "assistant" =>
              i > 1 /\ h[i - 1] = HistoryEntry("user", h[i].req)

(***************************************************************************)
(* Properties of the Dashboard tabs.                                       *)
(***************************************************************************)
NoTimerPending == Len(switchTimers) = 0 /\ settleTimers = 0

\* C26: in the Dashboard, after any sequence of tab clicks timed in any way
\* against the 300 ms and 50 ms timers, once every pending timer has fired the
\* active tab is the tab of the most recent click and isTransitioning is false;
\* with no timer pending, isTransitioning is false.
C26_TabsSettle ==
  NoTimerPending =>
    /\ ~isTransitioning
    /\ lastClick # "" => activeTab = lastClick

(***************************************************************************)
(* Properties of what is shown of a record.                                *)
(***************************************************************************)
\* the record generate1040Form was handed: server.ts sanitizes the body first
RenderedRecord ==
  IF route = "/api/generate-1040" THEN sanitizeInput(taxData) ELSE taxData

\* shown is the fixed mask followed by the last 4 characters of ssn, all of it
\* when it has fewer, and by nothing else
MaskedSsn(shown, ssn) ==
  /\ Len(shown) = 2
  /\ shown[1] = <<"XXX-XX-">>
  /\ Len(shown[2]) = Min(4, Len(ssn))
  /\ \A i \in 1..Len(shown[2]) : shown[2][i] = ssn[Len(ssn) - Len(shown[2]) + i]
  /\ Len(ssn) = 9 => shown[2] = << ssn[6], ssn[7], ssn[8], ssn[9] >>

\* C22: the rendered return shows the ssn masked: for every ssn string the output
\* holds a fixed mask followed by the last 4 characters of the ssn and no other
\* character of it; of a 9-digit ssn exactly the last 4 digits are exposed, in
\* the server PDF, the client PDF and the client summary alike.
C22_SsnMasked ==
  /\ genResponse.pdf.produced =>
       MaskedSsn(genResponse.pdf.ssn, RenderedRecord["ssn"].s)
  /\ clientPdf.produced => MaskedSsn(clientPdf.ssn, cFormData.data["ssn"].s)
  /\ SummaryShown => MaskedSsn(SummaryFields(cFormData.data).ssn, cFormData.data["ssn"].s)

\* a 9-digit ssn drawn by the server and, another one longer than 4, by the client
C22_Witness ==
  /\ genResponse.pdf.produced
  /\ RenderedRecord["ssn"].s = SampleSsn
  /\ genResponse.pdf.ssn[2] = <<"6", "7", "8", "9">>
  /\ clientPdf.produced
  /\ SummaryShown
  /\ Len(cFormData.data["ssn"].s) > 4
  /\ clientPdf.ssn[2] = SliceLast4(cFormData.data["ssn"].s)

\* the labels and standard deductions of the five filing statuses, in cents
StatusLabel(status) ==
  IF status = Str(<<"single">>) THEN <<"Single">>
  ELSE IF status = Str(<<"married_joint">>) THEN <<"Married Filing Jointly">>
  ELSE IF status = Str(<<"married_separate">>) THEN <<"Married Filing Separately">>
  ELSE IF status = Str(<<"head_of_household">>) THEN <<"Head of Household">>
  ELSE <<"Qualifying Widow(er)">>
DeductionTable(status) ==
  IF status \in {Str(<<"single">>), Str(<<"married_separate">>)} THEN 12950 * 100
  ELSE IF status = Str(<<"head_of_household">>) THEN 19400 * 100
  ELSE 25900 * 100

\* C25: every filing-status value the manual-entry form can put into a record is
\* one of single, married_joint, married_separate, head_of_household,
\* qualifying_widow, so that generate1040Form gives the record the label and the
\* standard deduction of its status (19400 for head of household), not the
\* fall-through label and deduction.
C25_ManualFilingStatus ==
  /\ manualFormData["filingStatus"] \in FilingStatuses
  /\ lastHandler = "manual" => cFormData.data["filingStatus"] \in FilingStatuses
  /\ genResponse.pdf.produced =>
       /\ RenderedRecord["filingStatus"] \in FilingStatuses
       /\ genResponse.pdf.filingStatus = StatusLabel(RenderedRecord["filingStatus"])
       /\ genResponse.pdf.taxItems[1].amount
            = Num(DeductionTable(RenderedRecord["filingStatus"]))

(***************************************************************************)
(* Properties of the line items of generate1040Form.                       *)
(***************************************************************************)
\* the lines of the document in the order they are drawn
LineItems ==
  genResponse.pdf.incomeItems \o genResponse.pdf.adjustedItems \o genResponse.pdf.taxItems

\* the lines that stand for the items of the presentation order: wages, interest,
\* dividends, capital gains, other income, total income, adjustments, adjusted
\* gross income, deduction, taxable income, estimated tax
PresentedLines ==
  << "1. Wages, salaries, tips", "2. Tax-exempt interest", "3b. Ordinary dividends",
     "7. Capital gain or (loss)", "8. Other income", "9. Total income",
     "10. Adjustments to income", "11. Adjusted gross income",
     "12. Standard deduction or itemized deductions", "14. Taxable income", "15. Tax" >>
PresentedFields == << "wages", "interest", "dividends", "capitalGains", "otherIncome" >>

HasLine(label) == \E i \in 1..Len(LineItems) : LineItems[i].label = label
LineIndex(label) == CHOOSE i \in 1..Len(LineItems) : LineItems[i].label = label
LineAmount(j) == LineItems[LineIndex(PresentedLines[j])].amount

\* C23: the line items drawn by generate1040Form come in the order wages, interest,
\* dividends, capital gains, other income, total income, adjustments, adjusted
\* gross income, deduction, taxable income, estimated tax, each with the value of
\* the record, so that the five displayed income items sum to the displayed
\* total income.
C23_LineItems ==
  genResponse.pdf.produced /\ HasIncomeAmounts(RenderedRecord) =>
    /\ \A j \in 1..Len(PresentedLines) : HasLine(PresentedLines[j])
    /\ \A j, k \in 1..Len(PresentedLines) :
         j < k => LineIndex(PresentedLines[j]) < LineIndex(PresentedLines[k])
    /\ \A j \in 1..Len(PresentedFields) :
         LineAmount(j) = Num(AmountOr0(RenderedRecord, PresentedFields[j]))
    /\ LineAmount(6) = Num(ClaimedTotalIncome(RenderedRecord))
    /\ LineAmount(7) = Num(AmountOr0(RenderedRecord, "adjustments"))
    /\ LineAmount(8) = Sub(LineAmount(6), LineAmount(7))
    /\ LineAmount(6) =
         Add(Add(Add(Add(LineAmount(1), LineAmount(2)), LineAmount(3)), LineAmount(4)),
             LineAmount(5))

====
